---- MODULE Spec2Model ----
(***************************************************************************)
(* Rocket Pool performance aggregation engine:                             *)
(*   - Node Rollup Calculator   (rocketpool_analysis_only.py)              *)
(*   - Window Performance Aggregator with Extended History Search          *)
(*   - Fusaka Death Tracker across runs (single- and multi-report runs)    *)
(*   - Snapshot History Builder (stats/collect_daily_stats.py)             *)
(*                                                                         *)
(* Conventions.  Python None for an integer-valued field is the value None *)
(* (= -1; every real epoch, reward and day count is >= 0).  A performance  *)
(* score is kept in hundredths of a percent (round(x, 2) * 100), wrapped   *)
(* in a record so that the "N/A" sentinel is not a number.  A status       *)
(* string older_than_{N}_days is the pair status "older_than", days N.     *)
(***************************************************************************)
EXTENDS Integers, Sequences, FiniteSets, TLC

VARIABLES
    \* ---- calculate_node_performance_scores: arguments, locals, result
    all_rp_validators,   \* roster: sequence of [pubkey, node_address]
    performance_data,    \* sequence of validator aggregate records (7-day rows in a snapshot)
    threshold_filter,    \* [kind: "none" | "all" | "num", cut: percent]
    fusaka_deaths,       \* in-memory tracker: set of tracked node addresses
    node_scores,         \* local list after the sort, before the filter
    returned,            \* the list the function returns
    pc,                  \* position of the run / of the function under test
    \* ---- Snapshot History Builder
    stats_history,       \* [snapshots: sequence, total_snapshots: metadata]
    history0,            \* the history before the first append_snapshot call
    snap_log,            \* the snapshots passed to append_snapshot, in order
    \* ---- time-series store and query_attestation_performance
    store,               \* val_id -> [rows: epochs with a row, atts: epochs attested]
    active_validators,   \* sequence of [val_id, node_address, pubkey]
    latest_epoch,        \* MAX(epoch) of validators_summary
    epochs_to_analyze,   \* length of the window
    retention_info,      \* [oldest_epoch, total_days], both None when the query failed
    batch_failed,        \* batches whose performance query raised
    ext_failed,          \* batches whose extended query raised
    ext_calls,           \* calls of find_last_attestation_extended, in order
    \* ---- runs of run_analysis / run_multi_analysis
    val_status,          \* pubkey -> val_status at the latest epoch, "not_indexed", "no_row"
    fusaka_file,         \* fusaka_deaths.json: the persisted set of tracked nodes
    fusaka_at_start,     \* content of fusaka_deaths.json when the run started
    load_failed,         \* load_fusaka_deaths could not read or parse the file
    save_failed,         \* save_fusaka_deaths caught an IOError
    run_kind,            \* "single" (run_analysis), "multi" (run_multi_analysis) or "none"
    period,              \* name of the period being analysed
    threshold_idx,       \* multi run: index into PERFORMANCE_THRESHOLDS
    reports,             \* report artifacts written by the run, in order
    validator_statuses,  \* all_validator_statuses: pubkey -> [val_id, status]; in a snapshot val_id -> status
    resolver_calls,      \* batches get_all_validator_statuses has queried, in order, and whether the query raised
    query_calls,         \* periods query_attestation_performance was called for, in order
    failed_periods,      \* periods whose performance query raised
    exit_status,         \* exit status of the process, None while it runs
    \* ---- runs of collect_daily_stats.py
    stats_file,          \* stats_history.json: [state, content], state "complete" or "partial"
    handed_histories,    \* the histories the run has handed to save_stats_history
    stats_tmp,           \* stats_history.tmp: absent, partly written or complete
    stats_at_start,      \* content of stats_history.json when the run started
    save_return,         \* where the run goes on after save_stats_history
    utc_offset,          \* seconds the local clock of the process is ahead of UTC
    target_date,         \* get_previous_complete_day()
    missing_dates,       \* get_missing_dates(...) of the run
    date_idx,            \* position of backfill_missing_days in missing_dates
    successful,          \* backfill_missing_days: snapshots collected
    skipped_dates,       \* dates collect_snapshot_for_date answered None for
    history_reads,       \* times the run read stats_history.json
    history_writes,      \* times the run replaced stats_history.json
    fusaka_reads,        \* times the run read fusaka_deaths.json
    \* ---- calculate_uld_status
    scan_data,           \* scanner output: sequence of node entries, <<>> when absent
    uld_info,            \* node address -> result of calculate_uld_status
    \* ---- calculate_snapshot_metrics
    node_assignments,    \* val_id -> node address, NoNode when unassigned
    snapshot_metrics     \* what calculate_snapshot_metrics returned, <<>> before the call

rollupVars == <<all_rp_validators, performance_data, threshold_filter,
                fusaka_deaths, node_scores, returned>>

historyVars == <<stats_history, history0, snap_log>>

queryVars == <<store, active_validators, latest_epoch, epochs_to_analyze,
               retention_info, batch_failed, ext_failed, ext_calls>>

runVars == <<val_status, fusaka_file, fusaka_at_start, load_failed, save_failed,
             run_kind, period, threshold_idx, reports, validator_statuses,
             resolver_calls, query_calls, failed_periods>>

collectVars == <<stats_file, handed_histories, stats_tmp, stats_at_start, save_return, utc_offset, target_date,
                 missing_dates, date_idx, successful, skipped_dates, history_reads,
                 history_writes, fusaka_reads>>

uldVars == <<scan_data, uld_info>>

metricVars == <<node_assignments, snapshot_metrics>>

vars == <<rollupVars, historyVars, queryVars, runVars, collectVars, uldVars, metricVars,
          exit_status, pc>>

None == 0 - 1

FUSAKA_EPOCH == 411392

-----------------------------------------------------------------------------
(* Each specification below exercises one component; the variables of the  *)
(* other components rest at these values.                                  *)

\* threshold_filter=None
NoThreshold == [kind |-> "none", cut |-> 0]

\* the structure load_stats_history creates when no file exists
EmptyHistory == [snapshots |-> <<>>, total_snapshots |-> 0]

HistoryIdle ==
    /\ stats_history = EmptyHistory
    /\ history0 = EmptyHistory
    /\ snap_log = <<>>

RollupIdle ==
    /\ all_rp_validators = <<>>
    /\ performance_data = <<>>
    /\ threshold_filter = NoThreshold
    /\ fusaka_deaths = {}
    /\ node_scores = <<>>
    /\ returned = <<>>

QueryIdle ==
    /\ store = <<>>
    /\ active_validators = <<>>
    /\ latest_epoch = 0
    /\ epochs_to_analyze = 0
    /\ retention_info = [oldest_epoch |-> None, total_days |-> None]
    /\ batch_failed = {}
    /\ ext_failed = {}
    /\ ext_calls = <<>>

RunIdle ==
    /\ val_status = <<>>
    /\ fusaka_file = {}
    /\ fusaka_at_start = {}
    /\ load_failed = FALSE
    /\ save_failed = FALSE
    /\ run_kind = "none"
    /\ period = "none"
    /\ threshold_idx = 0
    /\ reports = <<>>
    /\ validator_statuses = <<>>
    /\ resolver_calls = <<>>
    /\ query_calls = <<>>
    /\ failed_periods = {}
    /\ exit_status = None

CollectIdle ==
    /\ stats_file = [state |-> "complete", content |-> EmptyHistory]
    /\ handed_histories = {}
    /\ stats_tmp = [state |-> "none", content |-> EmptyHistory]
    /\ stats_at_start = [state |-> "complete", content |-> EmptyHistory]
    /\ save_return = "none"
    /\ utc_offset = 0
    /\ target_date = 0
    /\ missing_dates = <<>>
    /\ date_idx = 0
    /\ successful = 0
    /\ skipped_dates = {}
    /\ history_reads = 0
    /\ history_writes = 0
    /\ fusaka_reads = 0

UldIdle ==
    /\ scan_data = <<>>
    /\ uld_info = <<>>

MetricIdle ==
    /\ node_assignments = <<>>
    /\ snapshot_metrics = <<>>

-----------------------------------------------------------------------------
(* Generic helpers on sequences                                            *)

Range(s) == {s[i] : i \in DOMAIN s}

RECURSIVE SumInts(_)
SumInts(s) == IF s = <<>> THEN 0 ELSE Head(s) + SumInts(Tail(s))

\* All sequences over S of length 0..n
SeqsUpTo(S, n) == UNION {[1..k -> S] : k \in 0..n}

\* Python max(seq, key=...): the index of the first element carrying the
\* largest key, given the sequence of keys
FirstMax(keys) ==
    CHOOSE i \in DOMAIN keys :
        /\ \A j \in DOMAIN keys : keys[j] <= keys[i]
        /\ \A j \in DOMAIN keys : j < i => keys[j] < keys[i]

\* truncation in place of round()
RoundDivDown(n, d) == n \div d

\* Python round(): nearest integer, ties to even (n >= 0, d > 0)
RoundDiv(n, d) ==
    LET q == n \div d
        r == n % d
    IN IF 2 * r < d THEN q
       ELSE IF 2 * r > d THEN q + 1
       ELSE IF q % 2 = 0 THEN q ELSE q + 1

-----------------------------------------------------------------------------
(* Last-attestation descriptors                                            *)

Desc(status, epoch, days, age) ==
    [status |-> status, epoch |-> epoch, days |-> days, age_epochs |-> age]

NoDataDesc == Desc("no_data", None, None, None)
DefaultOlderDesc == Desc("older_than", None, 10, None)
FusakaDesc(age) == Desc("fusaka_death", FUSAKA_EPOCH, None, age)

FoundStatuses == {"found", "found_extended"}

\* key of max() over older_than_* statuses: the day count parsed back from
\* the status string, 10 when the third field is not all digits
OlderDayKey(att) == IF att.days >= 0 THEN att.days ELSE 10

EpochKey(att) == att.epoch

GetNodeLastAttestation(attestations) ==
    IF attestations = <<>> THEN NoDataDesc
    ELSE
      LET found_attestations ==
              SelectSeq(attestations, LAMBDA a : a.status \in FoundStatuses)
          valid_attestations ==
              SelectSeq(found_attestations, LAMBDA a : a.epoch # None)
          older_statuses ==
              SelectSeq(attestations, LAMBDA a : a.status = "older_than")
      IN IF found_attestations # <<>>
           THEN IF valid_attestations # <<>>
                  THEN valid_attestations[FirstMax([i \in DOMAIN valid_attestations |->
                                                        EpochKey(valid_attestations[i])])]
                  ELSE found_attestations[1]
           ELSE IF older_statuses # <<>>
                  THEN older_statuses[FirstMax([i \in DOMAIN older_statuses |->
                                                     OlderDayKey(older_statuses[i])])]
                  ELSE DefaultOlderDesc

-----------------------------------------------------------------------------
(* calculate_node_performance_scores                                       *)

\* a record of validator_aggregates
\* balances are kept in millionths of an ETH (the store keeps gwei, the
\* report ETH): a validator balance of 32 ETH
FULL_BALANCE == 32000000

\* balance_eth < 31.9
UNDERCOLLATERALISED_BELOW == 31900000

PerfRecordBal(val_id, node, earned, missed, preset, att, val_balance) ==
    [val_id |-> val_id,
     node_address |-> node,
     total_earned_rewards |-> earned,
     total_missed_rewards |-> missed,
     total_possible_rewards |-> earned + missed,
     performance_score |-> preset,
     last_attestation |-> att,
     val_balance |-> val_balance]

\* a record of a validator holding 32 ETH at end_epoch
PerfRecord(val_id, node, earned, missed, preset, att) ==
    PerfRecordBal(val_id, node, earned, missed, preset, att, FULL_BALANCE)

AllThreshold == [kind |-> "all", cut |-> 0]
NumThreshold(c) == [kind |-> "num", cut |-> c]
PERFORMANCE_THRESHOLDS == <<NumThreshold(80), NumThreshold(90), NumThreshold(95), AllThreshold>>


NA == [na |-> TRUE, bp |-> 0]
Num(bp) == [na |-> FALSE, bp |-> bp]

\* node_minipool_counts: keys in first-occurrence order of the roster
RECURSIVE NodeOrder(_, _)
NodeOrder(validators, seen) ==
    IF validators = <<>> THEN <<>>
    ELSE LET n == Head(validators).node_address
         IN IF n \in seen
              THEN NodeOrder(Tail(validators), seen)
              ELSE <<n>> \o NodeOrder(Tail(validators), seen \cup {n})

TotalMinipools(node_addr, validators) ==
    Cardinality({i \in DOMAIN validators : validators[i].node_address = node_addr})

RecordsOf(node_addr, perf) ==
    SelectSeq(perf, LAMBDA r : r.node_address = node_addr)

\* node_data[node]['active_validators'] is a set of val_id
ActiveValidators(node_addr, perf) ==
    {r.val_id : r \in Range(RecordsOf(node_addr, perf))}

TotalEarned(node_addr, perf) ==
    LET rs == RecordsOf(node_addr, perf)
    IN SumInts([i \in DOMAIN rs |-> rs[i].total_earned_rewards])

TotalMissed(node_addr, perf) ==
    LET rs == RecordsOf(node_addr, perf)
    IN SumInts([i \in DOMAIN rs |-> rs[i].total_missed_rewards])

TotalPossible(node_addr, perf) ==
    LET rs == RecordsOf(node_addr, perf)
    IN SumInts([i \in DOMAIN rs |-> rs[i].total_possible_rewards])

LastAttestations(node_addr, perf) ==
    LET rs == RecordsOf(node_addr, perf)
    IN [i \in DOMAIN rs |-> rs[i].last_attestation]

ExitedMinipoolsClamped(total, active) ==
    IF total >= active THEN total - active ELSE 0

ExitedMinipools(total, active) == total - active

\* records of the node carrying the preset 0% score
ZeroScoreValidatorsNone(node_addr, perf) == <<>>

ZeroScoreValidators(node_addr, perf) ==
    SelectSeq(perf, LAMBDA r : r.node_address = node_addr /\ r.performance_score = 0)

NodePerformanceScore(node_addr, perf) ==
    IF Cardinality(ActiveValidators(node_addr, perf)) > 0
      THEN IF ZeroScoreValidators(node_addr, perf) # <<>>
             THEN Num(0)
             ELSE IF TotalPossible(node_addr, perf) > 0
                    THEN Num(RoundDiv(10000 * TotalEarned(node_addr, perf),
                                      TotalPossible(node_addr, perf)))
                    ELSE Num(0)
      ELSE NA

\* a tracked node came back: found/found_extended strictly after the fork
Recovered(att) ==
    /\ att.status \in FoundStatuses
    /\ att.epoch # None
    /\ att.epoch > FUSAKA_EPOCH

ReportedAttestation(node_addr, perf, fusaka) ==
    LET raw == GetNodeLastAttestation(LastAttestations(node_addr, perf))
    IN IF node_addr \in fusaka /\ ~Recovered(raw)
         THEN FusakaDesc(raw.age_epochs)
         ELSE raw

IsBackUp(score, att) ==
    /\ ~score.na
    /\ score.bp > 0
    /\ att.status \in FoundStatuses
    /\ att.age_epochs # None
    /\ att.age_epochs <= 3

\* node_data[node]['validator_balances']
ValidatorBalances(node_addr, perf) ==
    LET rs == RecordsOf(node_addr, perf)
    IN [i \in DOMAIN rs |-> rs[i].val_balance]

Min(S) == CHOOSE x \in S : \A y \in S : x <= y
Maximum(S) == CHOOSE x \in S : \A y \in S : y <= x

\* sum(balances) / len(balances), kept as the two numbers; 0 of 0 when the
\* list is empty
AvgBalance(balances) == [sum |-> SumInts(balances), count |-> Len(balances)]

MinBalance(balances) == IF balances = <<>> THEN None ELSE Min(Range(balances))
MaxBalance(balances) == IF balances = <<>> THEN None ELSE Maximum(Range(balances))

ValidatorsBelow32Eth(balances) ==
    Len(SelectSeq(balances, LAMBDA b : b < UNDERCOLLATERALISED_BELOW))

NodeRecord(node_addr, perf, validators, fusaka) ==
    LET total == TotalMinipools(node_addr, validators)
        active == Cardinality(ActiveValidators(node_addr, perf))
        score == NodePerformanceScore(node_addr, perf)
        att == ReportedAttestation(node_addr, perf, fusaka)
    IN [node_address |-> node_addr,
        total_minipools |-> total,
        active_minipools |-> active,
        exited_minipools |-> ExitedMinipools(total, active),
        performance_score |-> score,
        total_earned_rewards |-> TotalEarned(node_addr, perf),
        total_missed_rewards |-> TotalMissed(node_addr, perf),
        total_possible_rewards |-> TotalPossible(node_addr, perf),
        last_attestation |-> att,
        is_back_up |-> IsBackUp(score, att),
        avg_balance |-> AvgBalance(ValidatorBalances(node_addr, perf)),
        min_balance |-> MinBalance(ValidatorBalances(node_addr, perf)),
        max_balance |-> MaxBalance(ValidatorBalances(node_addr, perf)),
        validators_below_32_eth |-> ValidatorsBelow32Eth(ValidatorBalances(node_addr, perf))]

\* validators_to_remove: tracked nodes of the roster seen back online
ValidatorsToRemove(perf, validators, fusaka) ==
    {n \in Range(NodeOrder(validators, {})) :
        /\ n \in fusaka
        /\ Recovered(GetNodeLastAttestation(LastAttestations(n, perf)))}

sort_key_na_first(x) == IF x.performance_score.na THEN 10100 ELSE x.performance_score.bp

\* -1 percent for "N/A", the score otherwise (hundredths of a percent)
sort_key(x) == IF x.performance_score.na THEN 0 - 100 ELSE x.performance_score.bp

\* list.sort(key=sort_key, reverse=True): stable, descending
RECURSIVE InsertDesc(_, _)
InsertDesc(x, s) ==
    IF s = <<>> THEN <<x>>
    ELSE IF sort_key(Head(s)) >= sort_key(x)
           THEN <<Head(s)>> \o InsertDesc(x, Tail(s))
           ELSE <<x>> \o s

RECURSIVE SortDesc(_)
SortDesc(s) ==
    IF s = <<>> THEN <<>>
    ELSE InsertDesc(s[Len(s)], SortDesc(SubSeq(s, 1, Len(s) - 1)))

SortedNodeScores(perf, validators, fusaka) ==
    LET order == NodeOrder(validators, {})
    IN SortDesc([i \in DOMAIN order |-> NodeRecord(order[i], perf, validators, fusaka)])

\* the threshold filter keeping the scores up to the cutoff
ThresholdFilterInclusive(scores, threshold) ==
    IF threshold.kind \in {"none", "all"} THEN scores
    ELSE SelectSeq(scores, LAMBDA n :
            ~n.performance_score.na /\ n.performance_score.bp <= 100 * threshold.cut)

ThresholdFilter(scores, threshold) ==
    IF threshold.kind \in {"none", "all"} THEN scores
    ELSE SelectSeq(scores, LAMBDA n :
            ~n.performance_score.na /\ n.performance_score.bp < 100 * threshold.cut)

\* the pair (node list, fusaka_deaths) the function returns
CalculateNodePerformanceScores(perf, validators, threshold, fusaka) ==
    [node_scores |-> ThresholdFilter(SortedNodeScores(perf, validators, fusaka), threshold),
     fusaka_deaths |-> fusaka \ ValidatorsToRemove(perf, validators, fusaka)]

-----------------------------------------------------------------------------
(* Calendar dates.  A date is its day number since 1970-01-01; isoformat() *)
(* renders it as YYYY-MM-DD, kept as <<year, month, day>>: the zero-padded *)
(* string compares character by character as the triple does field by     *)
(* field.                                                                  *)

DaysFromCivil(y0, m, d) ==
    LET y == IF m <= 2 THEN y0 - 1 ELSE y0
        era == y \div 400
        yoe == y - era * 400
        mp == IF m > 2 THEN m - 3 ELSE m + 9
        doy == (153 * mp + 2) \div 5 + d - 1
        doe == yoe * 365 + yoe \div 4 - yoe \div 100 + doy
    IN era * 146097 + doe - 719468

IsoFormat(days) ==
    LET z == days + 719468
        era == z \div 146097
        doe == z - era * 146097
        yoe == (doe - doe \div 1460 + doe \div 36524 - doe \div 146096) \div 365
        doy == doe - (365 * yoe + yoe \div 4 - yoe \div 100)
        mp == (5 * doy + 2) \div 153
        d == doy - (153 * mp + 2) \div 5 + 1
        m == IF mp < 10 THEN mp + 3 ELSE mp - 9
        y == yoe + era * 400 + (IF m <= 2 THEN 1 ELSE 0)
    IN <<y, m, d>>

\* str <= str on two isoformat strings
StrLeq(a, b) ==
    \/ a[1] < b[1]
    \/ a[1] = b[1] /\ a[2] < b[2]
    \/ a[1] = b[1] /\ a[2] = b[2] /\ a[3] <= b[3]

-----------------------------------------------------------------------------
(* append_snapshot                                                         *)

\* list.sort(key=lambda s: s['date']): stable, ascending by the date string.
\* x goes behind the leading elements whose date string is not greater.
InsertByDate(x, s) ==
    LET stops == {j \in DOMAIN s : ~StrLeq(s[j].date, x.date)}
        k == IF stops = {} THEN Len(s) ELSE Min(stops) - 1
    IN SubSeq(s, 1, k) \o <<x>> \o SubSeq(s, k + 1, Len(s))

\* a stable sort leaves a list that is in order as it is
InOrderByDate(s) == \A i \in 1..(Len(s) - 1) : StrLeq(s[i].date, s[i + 1].date)

RECURSIVE SortByDate(_)
SortByDate(s) ==
    IF InOrderByDate(s) THEN s
    ELSE InsertByDate(s[Len(s)], SortByDate(SubSeq(s, 1, Len(s) - 1)))

RemoveDateKeepAll(snapshots, snapshot_date) == snapshots

\* the existing snapshots of another date
RemoveDate(snapshots, snapshot_date) ==
    SelectSeq(snapshots, LAMBDA s : s.date # snapshot_date)

SortSnapshotsNoSort(snapshots) == snapshots

SortSnapshots(snapshots) == SortByDate(snapshots)

AppendSnapshot(history, snapshot) ==
    LET snapshots == SortSnapshots(Append(RemoveDate(history.snapshots, snapshot.date),
                                          snapshot))
    IN [snapshots |-> snapshots, total_snapshots |-> Len(snapshots)]

-----------------------------------------------------------------------------
(* Specifications of append_snapshot: SpecAppend applies it twice to any   *)
(* stored history, SpecHistory applies it any number of times starting     *)
(* from the empty history load_stats_history creates.                      *)

NumDates == 4
MaxHistory == 2

FirstDate == DaysFromCivil(2024, 12, 30)
Dates == FirstDate .. (FirstDate + NumDates - 1)
Metrics == {"m1", "m2", "m3"}

Snapshot(day, metrics) == [date |-> IsoFormat(day), metrics |-> metrics]
Snapshots == {Snapshot(d, m) : d \in Dates, m \in Metrics}

InitAppend ==
    /\ UldIdle
    /\ MetricIdle
    /\ CollectIdle
    /\ RunIdle
    /\ RollupIdle
    /\ QueryIdle
    /\ \E snaps \in SeqsUpTo({Snapshot(d, m) : d \in Dates, m \in {"m1", "m2"}}, MaxHistory) :
          /\ stats_history = [snapshots |-> snaps, total_snapshots |-> Len(snaps)]
          /\ history0 = stats_history
    /\ snap_log = <<>>
    /\ pc = "append"

\* first call, any snapshot
AppendFirst ==
    /\ pc = "append"
    /\ snap_log = <<>>
    /\ \E snapshot \in Snapshots :
          /\ stats_history' = AppendSnapshot(stats_history, snapshot)
          /\ snap_log' = <<snapshot>>
    /\ UNCHANGED <<rollupVars, queryVars, runVars, collectVars, uldVars, metricVars, exit_status, history0, pc>>

\* second call, a snapshot of the same date
AppendAgain ==
    /\ pc = "append"
    /\ Len(snap_log) = 1
    /\ \E snapshot \in Snapshots :
          /\ snapshot.date = snap_log[1].date
          /\ stats_history' = AppendSnapshot(stats_history, snapshot)
          /\ snap_log' = Append(snap_log, snapshot)
    /\ pc' = "done"
    /\ UNCHANGED <<rollupVars, queryVars, runVars, collectVars, uldVars, metricVars, exit_status, history0>>

NextAppend == AppendFirst \/ AppendAgain

SpecAppend == InitAppend /\ [][NextAppend]_vars

InitHistory ==
    /\ UldIdle
    /\ MetricIdle
    /\ CollectIdle
    /\ RunIdle
    /\ RollupIdle
    /\ QueryIdle
    /\ HistoryIdle
    /\ pc = "append"

\* any call; snap_log keeps the last snapshot passed
AppendAny ==
    /\ pc = "append"
    /\ \E snapshot \in Snapshots :
          /\ stats_history' = AppendSnapshot(stats_history, snapshot)
          /\ snap_log' = <<snapshot>>
    /\ UNCHANGED <<rollupVars, queryVars, runVars, collectVars, uldVars, metricVars, exit_status, history0, pc>>

NextHistory == AppendAny

SpecHistory == InitHistory /\ [][NextHistory]_vars

CountOf(snapshots, s) == Cardinality({i \in DOMAIN snapshots : snapshots[i] = s})

(* C4: after two append_snapshot calls with snapshots of one date, the     *)
(* history holds exactly one snapshot of that date, the second one, and    *)
(* the snapshots of every other date are those it held before.             *)
C4_SecondReplacesFirst ==
    (pc = "done" /\ Len(snap_log) = 2) =>
        LET snaps == stats_history.snapshots
            d == snap_log[2].date
        IN /\ Cardinality({i \in DOMAIN snaps : snaps[i].date = d}) = 1
           /\ \E i \in DOMAIN snaps : snaps[i] = snap_log[2]
           /\ \A s \in Range(snaps) \cup Range(history0.snapshots) :
                 s.date # d => CountOf(snaps, s) = CountOf(history0.snapshots, s)
           /\ stats_history.total_snapshots = Len(snaps)

\* the date was stored before, the two runs carry different values, and a
\* snapshot of another date is kept
C4_Witness ==
    /\ pc = "done"
    /\ Len(snap_log) = 2
    /\ snap_log[1] # snap_log[2]
    /\ \E i \in DOMAIN history0.snapshots : history0.snapshots[i].date = snap_log[2].date
    /\ \E i \in DOMAIN stats_history.snapshots :
          stats_history.snapshots[i].date # snap_log[2].date

(* C5: starting from the empty history, after any sequence of              *)
(* append_snapshot calls the list holds at most one snapshot per date and  *)
(* is sorted ascending by date.                                            *)
C5_UniqueSortedDates ==
    LET snaps == stats_history.snapshots
    IN \A i, j \in DOMAIN snaps :
          i < j => /\ snaps[i].date # snaps[j].date
                   /\ StrLeq(snaps[i].date, snaps[j].date)

\* a full history across the year's end, reached by replacing a stored date
\* that is not the latest
C5_Witness ==
    /\ Len(stats_history.snapshots) = NumDates
    /\ snap_log # <<>>
    /\ snap_log[1].date = IsoFormat(FirstDate)
    /\ stats_history.snapshots[1] = snap_log[1]
    /\ stats_history.snapshots[1].date[1] < stats_history.snapshots[NumDates].date[1]

-----------------------------------------------------------------------------
(* Time-series store.  store[v] holds, for internal id v, the epochs at    *)
(* which validators_summary has a row and those among them at which        *)
(* att_happened = 1.  A row with a successful attestation carries          *)
(* earned 900 / missed 100, a row without one earned 0 / missed 1000.      *)

EPOCHS_PER_DAY == 225
batch_size == 2

ANALYSIS_PERIODS == ("1day" :> 225) @@ ("3day" :> 675) @@ ("7day" :> 1575)

Max(S) == CHOOSE x \in S : \A y \in S : y <= x
MaxOrNone(S) == IF S = {} THEN None ELSE Max(S)

RowsIn(st, v, lo, hi) == {e \in st[v].rows : lo <= e /\ e <= hi}

\* MAXIf(val_balance, epoch = end_epoch): nothing when no row is at end_epoch
BalanceAtEnd(st, v, end_epoch) == IF end_epoch \in st[v].rows THEN st[v].balance ELSE None

\* val_balance or 0
BalanceOrZero(val_balance) == IF val_balance = None THEN 0 ELSE val_balance

\* the attested epochs of the validator whatever the epoch range asked for
AttsInAnyRange(st, v, lo, hi) == st[v].atts

\* epochs of [lo, hi] at which the validator's row has att_happened = 1
AttsIn(st, v, lo, hi) == {e \in st[v].atts : lo <= e /\ e <= hi}

\* get_database_retention_info
RetentionInfo(oldest, newest, failed) ==
    IF failed
      THEN [oldest_epoch |-> None, total_days |-> None]
      ELSE [oldest_epoch |-> oldest, total_days |-> (newest - oldest) \div EPOCHS_PER_DAY]

\* validators[i:i+batch_size] for i = 0, batch_size, ...
Batches(validators, size) ==
    [b \in 1..((Len(validators) + size - 1) \div size) |->
        SubSeq(validators, (b - 1) * size + 1,
               IF b * size < Len(validators) THEN b * size ELSE Len(validators))]

\* result rows of the aggregate query of one batch: one row per val_id of
\* the batch with a row inside the window (GROUP BY val_id), in batch order
PerformanceRows(st, batch, start_epoch, end_epoch) ==
    LET present == SelectSeq(batch, LAMBDA v : RowsIn(st, v.val_id, start_epoch, end_epoch) # {})
    IN [i \in DOMAIN present |->
          LET v == present[i].val_id
              n_att == Cardinality(AttsIn(st, v, start_epoch, end_epoch))
              n_rows == Cardinality(RowsIn(st, v, start_epoch, end_epoch))
          IN [val_id |-> v,
              total_earned |-> 900 * n_att,
              total_missed |-> 100 * n_att + 1000 * (n_rows - n_att),
              total_epochs |-> n_rows,
              successful_attestations |-> n_att,
              last_attestation_epoch |-> MaxOrNone(AttsIn(st, v, start_epoch, end_epoch)),
              val_balance |-> BalanceAtEnd(st, v, end_epoch)]]

NeedingExtendedSearchAll(rows) == [i \in DOMAIN rows |-> rows[i].val_id]

\* validators_needing_extended_search
NeedingExtendedSearch(rows) ==
    LET silent == SelectSeq(rows, LAMBDA r : r.last_attestation_epoch = None)
    IN [i \in DOMAIN silent |-> silent[i].val_id]

SearchEndEpoch(start_epoch, oldest_epoch) ==
    IF start_epoch - 1 < oldest_epoch THEN oldest_epoch ELSE start_epoch - 1

\* find_last_attestation_extended: val_id -> descriptor, for the ids with a
\* row in [oldest_epoch, search_end_epoch]; empty when the query raised
FindLastAttestationExtended(st, ids, oldest_epoch, search_end_epoch, newest_epoch, failed) ==
    IF failed THEN <<>>
    ELSE [v \in {x \in Range(ids) : RowsIn(st, x, oldest_epoch, search_end_epoch) # {}} |->
            LET last == MaxOrNone(AttsIn(st, v, oldest_epoch, search_end_epoch))
            IN IF last # None
                 THEN Desc("found_extended", last, None, newest_epoch - last)
                 ELSE Desc("older_than", None,
                           (newest_epoch - oldest_epoch) \div EPOCHS_PER_DAY, None)]

\* whether the batch leads to a call of find_last_attestation_extended
ExtendedSearchIssued(rows, oldest_epoch) ==
    NeedingExtendedSearch(rows) # <<>> /\ oldest_epoch # None

\* fallback descriptor when the extended search gave nothing for the id
FallbackDesc(total_days) ==
    Desc("older_than", None,
         IF total_days # None /\ total_days # 0 THEN total_days ELSE 10, None)

PresetScoreNever(last_attestation_epoch) == None

\* performance_score = 0.0 if last_attestation_epoch is None else None
PresetScore(last_attestation_epoch) ==
    IF last_attestation_epoch = None THEN 0 ELSE None

\* the records one batch adds to validator_aggregates
BatchRecords(st, batch, latest, epochs, retention, extFailed) ==
    LET start_epoch == latest - epochs + 1
        end_epoch == latest
        rows == PerformanceRows(st, batch, start_epoch, end_epoch)
        extended ==
            IF ExtendedSearchIssued(rows, retention.oldest_epoch)
              THEN FindLastAttestationExtended(st, NeedingExtendedSearch(rows),
                        retention.oldest_epoch,
                        SearchEndEpoch(start_epoch, retention.oldest_epoch),
                        latest, extFailed)
              ELSE <<>>
    IN [i \in DOMAIN rows |->
          LET r == rows[i]
              validator == CHOOSE v \in Range(batch) : v.val_id = r.val_id
              info == IF r.last_attestation_epoch # None
                        THEN Desc("found", r.last_attestation_epoch, None,
                                  end_epoch - r.last_attestation_epoch)
                        ELSE IF r.val_id \in DOMAIN extended
                               THEN extended[r.val_id]
                               ELSE FallbackDesc(retention.total_days)
          IN PerfRecordBal(r.val_id, validator.node_address, r.total_earned, r.total_missed,
                           PresetScore(r.last_attestation_epoch), info,
                           BalanceOrZero(r.val_balance))]

RECURSIVE ConcatBatches(_, _, _, _, _, _, _, _)
ConcatBatches(st, batches, b, latest, epochs, retention, batchFailed, extFailed) ==
    IF b > Len(batches) THEN <<>>
    ELSE (IF b \in batchFailed THEN <<>>
          ELSE BatchRecords(st, batches[b], latest, epochs, retention, b \in extFailed))
         \o ConcatBatches(st, batches, b + 1, latest, epochs, retention, batchFailed, extFailed)

\* list(validator_aggregates.values())
QueryAttestationPerformance(st, validators, latest, epochs, retention, batchFailed, extFailed) ==
    ConcatBatches(st, Batches(validators, batch_size), 1, latest, epochs, retention,
                  batchFailed, extFailed)

\* the calls of find_last_attestation_extended the query makes, in order
RECURSIVE ExtendedCalls(_, _, _, _, _, _, _)
ExtendedCalls(st, batches, b, latest, epochs, retention, batchFailed) ==
    IF b > Len(batches) THEN <<>>
    ELSE LET start_epoch == latest - epochs + 1
             rows == PerformanceRows(st, batches[b], start_epoch, latest)
         IN (IF b \notin batchFailed /\ ExtendedSearchIssued(rows, retention.oldest_epoch)
               THEN <<[batch |-> b,
                       val_id_list |-> NeedingExtendedSearch(rows),
                       oldest_epoch |-> retention.oldest_epoch,
                       search_end_epoch |-> SearchEndEpoch(start_epoch, retention.oldest_epoch)]>>
               ELSE <<>>)
            \o ExtendedCalls(st, batches, b + 1, latest, epochs, retention, batchFailed)

-----------------------------------------------------------------------------
(* Specification SpecQuery: query_attestation_performance over a bounded   *)
(* store, with any batch query and any extended query free to fail.        *)

QueryVals == {1, 2, 3}
LatestEpoch == FUSAKA_EPOCH + 300
WindowStart == LatestEpoch - ANALYSIS_PERIODS["1day"] + 1

\* retention reaching back 120 days, or shorter than the window
OldestChoices == {LatestEpoch - 120 * EPOCHS_PER_DAY + 1, WindowStart + 10}

\* the epochs at which the model's store may hold rows
RowEpochs(oldest) ==
    IF oldest < WindowStart THEN {WindowStart - 1, LatestEpoch} ELSE {oldest, LatestEpoch}

RowSets(epochs) ==
    {[rows |-> R, atts |-> A, balance |-> FULL_BALANCE] : R \in SUBSET epochs, A \in SUBSET epochs}

Stores(vals, epochs) ==
    [vals -> {rs \in RowSets(epochs) : rs.atts \subseteq rs.rows}]

ValidatorOf(v) == [val_id |-> v, node_address |-> IF v = 3 THEN "n2" ELSE "n1", pubkey |-> v]

InitQuery ==
    /\ UldIdle
    /\ MetricIdle
    /\ CollectIdle
    /\ RunIdle
    /\ HistoryIdle
    /\ all_rp_validators = <<>>
    /\ performance_data = <<>>
    /\ threshold_filter = NoThreshold
    /\ fusaka_deaths = {}
    /\ node_scores = <<>>
    /\ returned = <<>>
    /\ latest_epoch = LatestEpoch
    /\ epochs_to_analyze = ANALYSIS_PERIODS["1day"]
    /\ active_validators = [i \in 1..3 |-> ValidatorOf(i)]
    /\ \E oldest \in OldestChoices :
          /\ store \in Stores(QueryVals, RowEpochs(oldest))
          /\ \E failed \in BOOLEAN :
                retention_info = RetentionInfo(oldest, LatestEpoch, failed)
    /\ batch_failed = {}
    /\ ext_failed = {}
    /\ ext_calls = <<>>
    /\ pc = "query"

Query ==
    /\ pc = "query"
    /\ \E bf \in SUBSET (DOMAIN Batches(active_validators, batch_size)) :
       \E ef \in SUBSET {c.batch : c \in Range(ExtendedCalls(store,
                              Batches(active_validators, batch_size), 1, latest_epoch,
                              epochs_to_analyze, retention_info, bf))} :
          /\ batch_failed' = bf
          /\ ext_failed' = ef
          /\ performance_data' =
                QueryAttestationPerformance(store, active_validators, latest_epoch,
                    epochs_to_analyze, retention_info, bf, ef)
          /\ ext_calls' =
                ExtendedCalls(store, Batches(active_validators, batch_size), 1, latest_epoch,
                    epochs_to_analyze, retention_info, bf)
    /\ pc' = "done"
    /\ UNCHANGED <<all_rp_validators, threshold_filter, fusaka_deaths, node_scores, returned,
                   historyVars, runVars, collectVars, uldVars, metricVars, exit_status, store, active_validators, latest_epoch,
                   epochs_to_analyze, retention_info>>

NextQuery == Query

SpecQuery == InitQuery /\ [][NextQuery]_vars

AttestedInWindow(v) ==
    AttsIn(store, v, latest_epoch - epochs_to_analyze + 1, latest_epoch) # {}

HasWindowRows(v) ==
    RowsIn(store, v, latest_epoch - epochs_to_analyze + 1, latest_epoch) # {}

BatchOf(b) == Batches(active_validators, batch_size)[b]

(* C6: the id list passed to find_last_attestation_extended holds only     *)
(* validators without an attestation inside [start_epoch, end_epoch], and  *)
(* no extended query is issued for a batch whose validators all attested.  *)
C6_ExtendedOnlyForSilent ==
    pc = "done" =>
        /\ \A c \in DOMAIN ext_calls :
              \A k \in DOMAIN ext_calls[c].val_id_list :
                  ~AttestedInWindow(ext_calls[c].val_id_list[k])
        /\ \A b \in DOMAIN Batches(active_validators, batch_size) :
              (\A k \in DOMAIN BatchOf(b) : AttestedInWindow(BatchOf(b)[k].val_id))
                  => \A c \in DOMAIN ext_calls : ext_calls[c].batch # b

\* one batch searched for its silent validator only, although its other
\* validator attested; the other batch attested and was not searched
C6_Witness ==
    /\ pc = "done"
    /\ Len(ext_calls) = 1
    /\ ext_calls[1].batch = 1
    /\ Len(ext_calls[1].val_id_list) = 1
    /\ \E k \in DOMAIN BatchOf(1) : AttestedInWindow(BatchOf(1)[k].val_id)
    /\ \A k \in DOMAIN BatchOf(2) : AttestedInWindow(BatchOf(2)[k].val_id)
    /\ 2 \notin batch_failed

(* C10: a returned record of a validator without a successful attestation  *)
(* inside the window carries the preset score 0 whatever the extended      *)
(* search did (found_extended, older_than_N_days, failed or not issued);   *)
(* the search decides the descriptor only; a validator that attested       *)
(* inside the window never carries the preset score.                       *)
C10_PresetZeroIffSilent ==
    pc = "done" =>
        \A i \in DOMAIN performance_data :
            LET r == performance_data[i]
                start_epoch == latest_epoch - epochs_to_analyze + 1
                n_att == Cardinality(AttsIn(store, r.val_id, start_epoch, latest_epoch))
                n_rows == Cardinality(RowsIn(store, r.val_id, start_epoch, latest_epoch))
            IN /\ (~AttestedInWindow(r.val_id)) => r.performance_score = 0
               /\ AttestedInWindow(r.val_id) => r.performance_score = None
               /\ AttestedInWindow(r.val_id) <=> r.last_attestation.status = "found"
               /\ r.total_earned_rewards = 900 * n_att
               /\ r.total_missed_rewards = 100 * n_att + 1000 * (n_rows - n_att)
               /\ r.total_possible_rewards = r.total_earned_rewards + r.total_missed_rewards

\* one run returns preset-0 records after a found_extended result, after an
\* older_than result and after a failed extended query, next to a record
\* of a validator that attested
C10_Witness ==
    /\ pc = "done"
    /\ ext_failed = {2}
    /\ Len(ext_calls) = 2
    /\ Len(performance_data) = 3
    /\ performance_data[1].performance_score = 0
    /\ performance_data[1].last_attestation.status = "found_extended"
    /\ performance_data[2].performance_score = None
    /\ performance_data[3].performance_score = 0
    /\ performance_data[3].last_attestation.status = "older_than"

-----------------------------------------------------------------------------
(* Specification SpecRollup: the rollup applied to bounded arbitrary input *)

MaxRoster == 2
MaxRecords == 2

Nodes == {"n1", "n2"}
ValIds == {1, 2}

\* rosters: validator i (pubkey i) belongs to node f[i]
Rosters(n) ==
    {[i \in DOMAIN f |-> [pubkey |-> i, node_address |-> f[i]]] : f \in SeqsUpTo(Nodes, n)}

\* (earned, missed, preset score) of a record; the preset 0% goes with a
\* window in which nothing was earned
RecordKinds == {<<900, 100, None>>, <<100, 900, None>>, <<0, 0, None>>, <<0, 0, 0>>}

RollupRecords ==
    {PerfRecord(v, n, k[1], k[2], k[3],
                IF k[3] = 0 THEN Desc("older_than", None, 120, None)
                            ELSE Desc("found", FUSAKA_EPOCH + 10, None, 0)) :
        v \in ValIds, n \in Nodes, k \in RecordKinds}

InitRollup ==
    /\ UldIdle
    /\ MetricIdle
    /\ CollectIdle
    /\ RunIdle
    /\ HistoryIdle
    /\ QueryIdle
    /\ all_rp_validators \in Rosters(MaxRoster)
    /\ performance_data \in SeqsUpTo(RollupRecords, MaxRecords)
    /\ threshold_filter \in Range(PERFORMANCE_THRESHOLDS) \cup {NoThreshold}
    /\ fusaka_deaths = {}
    /\ node_scores = <<>>
    /\ returned = <<>>
    /\ pc = "call"

Calculate ==
    /\ pc = "call"
    /\ LET res == CalculateNodePerformanceScores(performance_data, all_rp_validators,
                                                 threshold_filter, fusaka_deaths)
       IN /\ node_scores' = SortedNodeScores(performance_data, all_rp_validators, fusaka_deaths)
          /\ returned' = res.node_scores
          /\ fusaka_deaths' = res.fusaka_deaths
    /\ pc' = "done"
    /\ UNCHANGED <<all_rp_validators, performance_data, threshold_filter, historyVars, queryVars, runVars, collectVars, uldVars, metricVars, exit_status>>

NextRollup == Calculate

SpecRollup == InitRollup /\ [][NextRollup]_vars

-----------------------------------------------------------------------------
(* C1: every node record produced by calculate_node_performance_scores     *)
(* satisfies active_minipools + exited_minipools = total_minipools, and    *)
(* total_minipools is the number of roster validators of the node.         *)
C1_CountsAddUp ==
    pc = "done" =>
        \A i \in DOMAIN node_scores :
            LET n == node_scores[i]
            IN /\ n.active_minipools + n.exited_minipools = n.total_minipools
               /\ n.total_minipools =
                    Cardinality({k \in DOMAIN all_rp_validators :
                                    all_rp_validators[k].node_address = n.node_address})

\* a node with more distinct active validators than roster validators
C1_Witness ==
    /\ pc = "done"
    /\ \E i \in DOMAIN node_scores :
          /\ node_scores[i].active_minipools > node_scores[i].total_minipools
    /\ \E i \in DOMAIN node_scores :
          /\ node_scores[i].active_minipools = 0
          /\ node_scores[i].exited_minipools > 0

(* C2: a node with an active validator and a preset-0% record has score    *)
(* exactly 0, whatever its other validators earned or missed.              *)
C2_ZeroDominates ==
    pc = "done" =>
        \A i \in DOMAIN node_scores :
            LET n == node_scores[i]
            IN (/\ n.active_minipools > 0
                /\ \E k \in DOMAIN performance_data :
                      /\ performance_data[k].node_address = n.node_address
                      /\ performance_data[k].performance_score = 0)
               => n.performance_score = Num(0)

\* A (earned 900, missed 100) and a silent B on the same node, scored 0
C2_Witness ==
    /\ pc = "done"
    /\ \E i \in DOMAIN node_scores :
          /\ node_scores[i].performance_score = Num(0)
          /\ \E a, b \in DOMAIN performance_data :
                /\ performance_data[a].node_address = node_scores[i].node_address
                /\ performance_data[b].node_address = node_scores[i].node_address
                /\ performance_data[a].val_id # performance_data[b].val_id
                /\ performance_data[a].performance_score = None
                /\ performance_data[a].total_earned_rewards = 900
                /\ performance_data[a].total_missed_rewards = 100
                /\ performance_data[b].performance_score = 0
                /\ performance_data[b].total_earned_rewards = 0
                /\ performance_data[b].total_missed_rewards = 0

(* C3: in the returned node list numeric scores are non-increasing and     *)
(* every N/A node comes after every numeric node, for every threshold.     *)
C3_SortedNALast ==
    pc = "done" =>
        \A i, j \in DOMAIN returned :
            i < j =>
                /\ ~(returned[i].performance_score.na /\ ~returned[j].performance_score.na)
                /\ (~returned[i].performance_score.na /\ ~returned[j].performance_score.na)
                      => returned[i].performance_score.bp >= returned[j].performance_score.bp

\* the roster lists the N/A node first; the result lists it last, after a 0% node
C3_Witness ==
    /\ pc = "done"
    /\ Len(returned) = 2
    /\ all_rp_validators[1].node_address = returned[2].node_address
    /\ returned[2].performance_score.na
    /\ returned[1].performance_score = Num(0)

\* position of a node in the sorted list
PositionOf(node_addr, scores) ==
    CHOOSE i \in DOMAIN scores : scores[i].node_address = node_addr

BelowCutoff(n, threshold) ==
    ~n.performance_score.na /\ n.performance_score.bp < 100 * threshold.cut

(* C22: for a numeric cutoff the returned list holds exactly the nodes of  *)
(* the sorted list whose score is numeric and strictly below the cutoff,   *)
(* in the order of the sorted list; for "all" or no cutoff it is the       *)
(* sorted list, N/A nodes included.                                        *)
C22_FilterStrictlyBelow ==
    pc = "done" =>
        IF threshold_filter.kind = "num"
          THEN /\ Range(returned) = {n \in Range(node_scores) : BelowCutoff(n, threshold_filter)}
               /\ \A i, j \in DOMAIN returned :
                     i < j => PositionOf(returned[i].node_address, node_scores)
                                 < PositionOf(returned[j].node_address, node_scores)
          ELSE returned = node_scores

\* cutoff 90: a node at exactly 90.00 is left out, a node below is kept
C22_Witness ==
    /\ pc = "done"
    /\ threshold_filter = NumThreshold(90)
    /\ Len(node_scores) = 2
    /\ node_scores[1].performance_score = Num(9000)
    /\ returned = <<node_scores[2]>>

-----------------------------------------------------------------------------
(* Specification SpecDescriptor: the roll-up over records whose            *)
(* last-attestation descriptors take every status the performance query    *)
(* produces.                                                               *)

\* found inside the window, found_extended before it, older_than_N_days
DescChoices ==
    {Desc("found", FUSAKA_EPOCH + 20, None, 10), Desc("found", FUSAKA_EPOCH + 30, None, 0),
     Desc("found_extended", FUSAKA_EPOCH + 5, None, 25),
     Desc("older_than", None, 30, None), Desc("older_than", None, 120, None)}

DescRecords ==
    {PerfRecord(v, n, 900, 100, None, a) : v \in ValIds, n \in Nodes, a \in DescChoices}

InitDescriptor ==
    /\ UldIdle
    /\ MetricIdle
    /\ CollectIdle
    /\ RunIdle
    /\ HistoryIdle
    /\ QueryIdle
    /\ all_rp_validators \in Rosters(MaxRoster)
    /\ performance_data \in SeqsUpTo(DescRecords, MaxRecords)
    /\ threshold_filter = NoThreshold
    /\ fusaka_deaths = {}
    /\ node_scores = <<>>
    /\ returned = <<>>
    /\ pc = "call"

NextDescriptor == Calculate

SpecDescriptor == InitDescriptor /\ [][NextDescriptor]_vars

\* the descriptors of the node's validators
DescriptorsOf(node_addr) == Range(LastAttestations(node_addr, performance_data))

(* C23: with no Fusaka override, a node's descriptor is the one of largest *)
(* epoch among its validators' found/found_extended descriptors; if there  *)
(* is none, the one of largest day count among the older_than ones; and    *)
(* if there is none of these either, a node without any descriptor         *)
(* included, older_than_10_days.                                           *)
C23_NodeDescriptor ==
    pc = "done" =>
        \A i \in DOMAIN node_scores :
            LET att == node_scores[i].last_attestation
                found == {d \in DescriptorsOf(node_scores[i].node_address) :
                             d.status \in FoundStatuses}
                older == {d \in DescriptorsOf(node_scores[i].node_address) :
                             d.status = "older_than"}
            IN IF found # {}
                 THEN att \in found /\ \A d \in found : d.epoch <= att.epoch
                 ELSE IF older # {}
                        THEN att \in older /\ \A d \in older : d.days <= att.days
                        ELSE att = DefaultOlderDesc

-----------------------------------------------------------------------------
(* Specification SpecScore: the roll-up over records whose earned and      *)
(* missed rewards make the quotient round up, round down, tie and vanish.  *)

\* (earned, missed, preset score)
ScoreKinds ==
    {<<0, 0, None>>, <<1, 2, None>>, <<2, 1, None>>, <<1, 31, None>>, <<3, 0, None>>,
     <<0, 0, 0>>}

ScoreRecords ==
    {PerfRecord(v, n, k[1], k[2], k[3],
                IF k[3] = 0 THEN Desc("older_than", None, 120, None)
                            ELSE Desc("found", FUSAKA_EPOCH + 10, None, 0)) :
        v \in ValIds, n \in Nodes, k \in ScoreKinds}

InitScore ==
    /\ UldIdle
    /\ MetricIdle
    /\ CollectIdle
    /\ RunIdle
    /\ HistoryIdle
    /\ QueryIdle
    /\ all_rp_validators = <<[pubkey |-> 1, node_address |-> "n1"],
                             [pubkey |-> 2, node_address |-> "n2"]>>
    /\ performance_data \in SeqsUpTo(ScoreRecords, MaxRecords)
    /\ threshold_filter = NoThreshold
    /\ fusaka_deaths = {}
    /\ node_scores = <<>>
    /\ returned = <<>>
    /\ pc = "call"

NextScore == Calculate

SpecScore == InitScore /\ [][NextScore]_vars

Abs(x) == IF x >= 0 THEN x ELSE 0 - x

(* C24: a node with an active validator and no preset-0% record has the    *)
(* score 100 * earned / (earned + missed) rounded to two decimals, that    *)
(* is within half a hundredth of the quotient, and 0 when earned + missed  *)
(* is 0; every numeric score lies between 0 and 100.                       *)
C24_ScoreIsRoundedQuotient ==
    pc = "done" =>
        \A i \in DOMAIN node_scores :
            LET n == node_scores[i]
                earned == n.total_earned_rewards
                possible == n.total_earned_rewards + n.total_missed_rewards
                bp == n.performance_score.bp
            IN /\ (/\ n.active_minipools > 0
                   /\ ZeroScoreValidators(n.node_address, performance_data) = <<>>)
                  => /\ ~n.performance_score.na
                     /\ possible = 0 => bp = 0
                     /\ possible > 0 => 2 * Abs(bp * possible - 10000 * earned) <= possible
               /\ ~n.performance_score.na => (0 <= bp /\ bp <= 10000)

\* 2 of 3 is reported as 66.67, 1 of 32 as 3.12 and 0 of 0 as 0
C24_Witness ==
    /\ pc = "done"
    /\ Len(node_scores) = 2
    /\ \E i, j \in DOMAIN node_scores :
          /\ node_scores[i].total_earned_rewards = 2
          /\ node_scores[i].total_missed_rewards = 1
          /\ node_scores[i].performance_score = Num(6667)
          /\ node_scores[j].total_earned_rewards = 1
          /\ node_scores[j].total_missed_rewards = 31
          /\ node_scores[j].performance_score = Num(312)

-----------------------------------------------------------------------------
(* collect_daily_stats.py: the daily run of the snapshot history builder   *)

GENESIS_TIMESTAMP == 1606824023
SECONDS_PER_EPOCH == 384
SECONDS_PER_DAY == 86400

\* int(x / 384): truncation towards zero
TruncDiv(x, d) == IF x >= 0 THEN x \div d ELSE 0 - ((0 - x) \div d)

\* date_to_end_epoch: 23:59:59 of the date on the local clock of the process
DateToEndEpoch(day, offset) ==
    TruncDiv(day * SECONDS_PER_DAY + 86399 - offset - GENESIS_TIMESTAMP, SECONDS_PER_EPOCH)

\* datetime.fromisoformat(s['date']).date()
DateFromIso(iso) == DaysFromCivil(iso[1], iso[2], iso[3])

\* load_stats_history: the file's history, a new structure when the file is
\* missing or cannot be loaded
LoadStatsHistory(file, failed) ==
    IF failed \/ file.state # "complete" THEN EmptyHistory ELSE file.content

\* timedelta(days=119) of get_missing_dates
DAYS_BACK == 119

\* sorted(missing)
RECURSIVE InsertDate(_, _)
InsertDate(x, s) ==
    IF s = <<>> THEN <<x>>
    ELSE IF x < Head(s) THEN <<x>> \o s
    ELSE <<Head(s)>> \o InsertDate(x, Tail(s))

RECURSIVE SortedDates(_)
SortedDates(s) ==
    IF s = <<>> THEN <<>> ELSE InsertDate(Head(s), SortedDates(Tail(s)))

\* get_missing_dates with the loop starting at most_recent itself
GetMissingDatesFromRecent(history, up_to_date, days_back) ==
    IF history.snapshots = <<>>
      THEN [i \in 1..(days_back + 1) |-> up_to_date - days_back + i - 1]
      ELSE LET most_recent == Max({DateFromIso(sn.date) : sn \in Range(history.snapshots)})
               n == IF up_to_date >= most_recent THEN up_to_date - most_recent + 1 ELSE 0
           IN [i \in 1..n |-> most_recent + i - 1]

\* get_missing_dates, looking days_back days back when the history is empty
GetMissingDates(history, up_to_date, days_back) ==
    IF history.snapshots = <<>>
      THEN [i \in 1..(days_back + 1) |-> up_to_date - days_back + i - 1]
      ELSE LET existing_dates == {DateFromIso(sn.date) : sn \in Range(history.snapshots)}
               most_recent == Max(existing_dates)
               n == IF up_to_date > most_recent THEN up_to_date - most_recent ELSE 0
               candidates == [i \in 1..n |-> most_recent + i]
           IN SortedDates(SelectSeq(candidates, LAMBDA d : d \notin existing_dates))

\* the temporary file of save_stats_history
TmpNone == [state |-> "none", content |-> EmptyHistory]
TmpPartial == [state |-> "partial", content |-> EmptyHistory]
TmpComplete(history) == [state |-> "complete", content |-> history]

\* json.dump of save_stats_history: what it leaves in the two files
DumpInPlace(file, history, ok) ==
    [file |-> IF ok THEN TmpComplete(history) ELSE TmpPartial, tmp |-> TmpComplete(history)]

DumpEffect(file, history, ok) ==
    [file |-> file, tmp |-> IF ok THEN TmpComplete(history) ELSE TmpPartial]

\* collect_snapshot_for_date answers None when end_epoch > latest_epoch
DataAvailable(day, offset, latest) == ~(DateToEndEpoch(day, offset) > latest)

-----------------------------------------------------------------------------
(* Validator status resolution                                             *)

ACTIVE_STATUSES == {"active_ongoing", "active_exiting"}

\* get_all_validator_statuses: pubkey -> status entry.  A batch whose query
\* raised, or none of whose keys is in validators_index, records nothing.
GetAllValidatorStatuses(status_of, validators, failed) ==
    LET batches == Batches(validators, batch_size)
        recorded == {b \in DOMAIN batches :
                        /\ b \notin failed
                        /\ \E v \in Range(batches[b]) : status_of[v.pubkey] # "not_indexed"}
        keys == UNION {{v.pubkey : v \in Range(batches[b])} : b \in recorded}
    IN [k \in keys |->
          IF status_of[k] = "not_indexed"
            THEN [val_id |-> None, status |-> "not_in_database"]
            ELSE [val_id |-> k,
                  status |-> IF status_of[k] = "no_row" THEN "unknown" ELSE status_of[k]]]

\* get_active_validators, with the statuses handed in
GetActiveValidators(validators, statuses) ==
    LET active == SelectSeq(validators, LAMBDA v :
                      /\ v.pubkey \in DOMAIN statuses
                      /\ statuses[v.pubkey].status \in ACTIVE_STATUSES)
    IN [i \in DOMAIN active |->
          [val_id |-> statuses[active[i].pubkey].val_id,
           node_address |-> active[i].node_address,
           pubkey |-> active[i].pubkey]]

-----------------------------------------------------------------------------
(* Specification SpecRun: runs of run_analysis and run_multi_analysis, one *)
(* after the other, over a store that changes between runs and a           *)
(* fusaka_deaths.json that lasts across them; its read and write may fail. *)

PERIOD_NAMES == <<"1day", "3day", "7day">>

\* --threshold choices of the command line
CliThresholds == {NumThreshold(80), NumThreshold(90), NumThreshold(95)}

\* scan results: validators 1, 2 belong to node n1, validator 3 to node n2
ScanValidators == [i \in 1..3 |-> [pubkey |-> i, node_address |-> ValidatorOf(i).node_address]]

\* nodes the Fusaka file may track: the roster's and one that left the roster
TrackableNodes == {"n1", "n2", "n3"}

\* the store holds a row per validator at each of these epochs
RunEpochs == {FUSAKA_EPOCH, FUSAKA_EPOCH + 1, LatestEpoch}

\* what the store knows of one validator: active with its last attestation
\* before, at, just after the fork, in every window, or never; or exited
ValCases ==
    {[status |-> "active_ongoing", atts |-> A] :
        A \in {{}, {FUSAKA_EPOCH}, {FUSAKA_EPOCH + 1}, {LatestEpoch}}}
    \cup {[status |-> "exited_unslashed", atts |-> {}]}

RunWorlds == [1..3 -> ValCases]

RunRetention == RetentionInfo(LatestEpoch - 120 * EPOCHS_PER_DAY + 1, LatestEpoch, FALSE)

\* load_fusaka_deaths: the tracked nodes of the file, none when the file is
\* missing, unreadable or not JSON
LoadFusakaDeaths(file, failed) == IF failed THEN {} ELSE file

\* a report artifact performance_{threshold}.json of directory {period}
Report(p, threshold, epochs, scores, statuses) ==
    [period |-> p, threshold |-> threshold, epochs_analyzed |-> epochs,
     total_nodes |-> Len(scores), node_performance_scores |-> scores,
     validator_statuses |-> statuses]

InitRun ==
    /\ UldIdle
    /\ MetricIdle
    /\ CollectIdle
    /\ HistoryIdle
    /\ RollupIdle
    /\ QueryIdle
    /\ val_status = <<>>
    /\ fusaka_file \in SUBSET TrackableNodes
    /\ fusaka_at_start = fusaka_file
    /\ load_failed = FALSE
    /\ save_failed = FALSE
    /\ run_kind = "none"
    /\ period = "none"
    /\ threshold_idx = 0
    /\ reports = <<>>
    /\ validator_statuses = <<>>
    /\ resolver_calls = <<>>
    /\ query_calls = <<>>
    /\ failed_periods = {}
    /\ exit_status = None
    /\ pc = "idle"

\* the batches one call of get_all_validator_statuses queries, in order
ResolverBatches(failed) ==
    [b \in DOMAIN Batches(ScanValidators, batch_size) |-> [batch |-> b, failed |-> b \in failed]]

\* resolver batches that raise: none in this specification
NoFaults == {{}}

\* query_attestation_performance of a period: every batch answers, or none
QueryFaults(validators) == {{}, DOMAIN Batches(validators, batch_size)}

\* the state of the store when a run connects to it
Connect(w) ==
    /\ store' = [v \in 1..3 |-> [rows |-> RunEpochs, atts |-> w[v].atts, balance |-> FULL_BALANCE]]
    /\ val_status' = [v \in 1..3 |-> w[v].status]
    /\ latest_epoch' = LatestEpoch
    /\ retention_info' = RunRetention
    /\ all_rp_validators' = ScanValidators

\* run_analysis up to the performance query: the statuses are resolved once
\* and handed to get_active_validators
StartAnalysisWith(worlds, faults) ==
    /\ pc = "idle"
    /\ \E w \in worlds, p \in Range(PERIOD_NAMES), t \in CliThresholds, failed \in faults :
          /\ Connect(w)
          /\ validator_statuses' = GetAllValidatorStatuses(val_status', ScanValidators, failed)
          /\ active_validators' = GetActiveValidators(ScanValidators, validator_statuses')
          /\ period' = p
          /\ threshold_filter' = t
          /\ epochs_to_analyze' = ANALYSIS_PERIODS[p]
          /\ performance_data' =
                QueryAttestationPerformance(store', active_validators', LatestEpoch,
                    ANALYSIS_PERIODS[p], RunRetention, {}, {})
          /\ query_calls' = <<p>>
          /\ failed_periods' = {}
          /\ resolver_calls' = ResolverBatches(failed)
    /\ \E failed \in BOOLEAN :
          /\ load_failed' = failed
          /\ fusaka_deaths' = LoadFusakaDeaths(fusaka_file, failed)
    /\ fusaka_at_start' = fusaka_file
    /\ run_kind' = "single"
    /\ pc' = "s_calc"
    /\ UNCHANGED <<node_scores, returned, historyVars, collectVars, uldVars, metricVars, batch_failed, ext_failed, ext_calls,
                   fusaka_file, save_failed, threshold_idx, reports,
                   exit_status>>

StartAnalysis == StartAnalysisWith(RunWorlds, NoFaults)

\* run_analysis: the roll-up, with the loaded Fusaka set
CalculateScores ==
    /\ pc = "s_calc"
    /\ LET res == CalculateNodePerformanceScores(performance_data, all_rp_validators,
                                                 threshold_filter, fusaka_deaths)
       IN /\ node_scores' = SortedNodeScores(performance_data, all_rp_validators, fusaka_deaths)
          /\ returned' = res.node_scores
          /\ fusaka_deaths' = res.fusaka_deaths
    /\ pc' = "s_write"
    /\ UNCHANGED <<all_rp_validators, performance_data, threshold_filter, historyVars,
                   queryVars, runVars, collectVars, uldVars, metricVars, exit_status>>

\* run_analysis: json.dump of the report
WriteReport ==
    /\ pc = "s_write"
    /\ reports' = <<Report(period, threshold_filter, epochs_to_analyze, returned, validator_statuses)>>
    /\ pc' = "s_save"
    /\ UNCHANGED <<rollupVars, historyVars, collectVars, uldVars, metricVars, queryVars, val_status, fusaka_file,
                   fusaka_at_start, load_failed, save_failed, run_kind, period,
                   threshold_idx, validator_statuses, resolver_calls, query_calls,
                   failed_periods,
                   exit_status>>

\* run_analysis: save_fusaka_deaths(fusaka_deaths); an IOError is caught and
\* the run goes on.  Here a failed write leaves the file as it was.
SaveFusakaDeaths ==
    /\ pc = "s_save"
    /\ \E failed \in BOOLEAN :
          /\ save_failed' = failed
          /\ fusaka_file' = IF failed THEN fusaka_file ELSE fusaka_deaths
    /\ exit_status' = 0
    /\ pc' = "s_done"
    /\ UNCHANGED <<rollupVars, historyVars, collectVars, uldVars, metricVars, queryVars, val_status, fusaka_at_start,
                   load_failed, run_kind, period, threshold_idx, reports,
                   validator_statuses, resolver_calls, query_calls,
                   failed_periods>>

\* run_multi_analysis up to the loop over the periods; fusaka_deaths.json
\* is not read.  get_active_validators is called without the statuses and
\* resolves them a second time.
StartMultiWith(worlds, faults) ==
    /\ pc = "idle"
    /\ \E w \in worlds, failed \in faults, failed_again \in faults :
          /\ Connect(w)
          /\ validator_statuses' = GetAllValidatorStatuses(val_status', ScanValidators, failed)
          /\ active_validators' =
                GetActiveValidators(ScanValidators,
                    GetAllValidatorStatuses(val_status', ScanValidators, failed_again))
          /\ resolver_calls' = ResolverBatches(failed) \o ResolverBatches(failed_again)
    /\ fusaka_at_start' = fusaka_file
    /\ run_kind' = "multi"
    /\ period' = PERIOD_NAMES[1]
    /\ pc' = "m_query"
    /\ UNCHANGED <<performance_data, threshold_filter, fusaka_deaths, node_scores, returned,
                   historyVars, collectVars, uldVars, metricVars, epochs_to_analyze, batch_failed, ext_failed, ext_calls,
                   fusaka_file, load_failed, save_failed, threshold_idx, reports,
                   query_calls, failed_periods,
                   exit_status>>

StartMulti == StartMultiWith(RunWorlds, NoFaults)

\* run_multi_analysis: the performance query of one period
MultiQuery ==
    /\ pc = "m_query"
    /\ epochs_to_analyze' = ANALYSIS_PERIODS[period]
    /\ \E failed \in QueryFaults(active_validators) :
          /\ batch_failed' = failed
          /\ performance_data' =
                QueryAttestationPerformance(store, active_validators, latest_epoch,
                    ANALYSIS_PERIODS[period], retention_info, failed, {})
          /\ failed_periods' = IF failed = {} THEN failed_periods
                                              ELSE failed_periods \cup {period}
    /\ query_calls' = Append(query_calls, period)
    /\ threshold_idx' = 1
    /\ pc' = "m_report"
    /\ UNCHANGED <<all_rp_validators, threshold_filter, fusaka_deaths, node_scores, returned,
                   historyVars, collectVars, uldVars, metricVars, store, active_validators, latest_epoch, retention_info,
                   ext_failed, ext_calls, val_status, fusaka_file, fusaka_at_start,
                   load_failed, save_failed, run_kind, period, reports, validator_statuses,
                   resolver_calls,
                   exit_status>>

NextPeriodStay(p) == p

NextPeriod(p) == CHOOSE q \in Range(PERIOD_NAMES) :
                    \E i \in 1..(Len(PERIOD_NAMES) - 1) :
                        PERIOD_NAMES[i] = p /\ PERIOD_NAMES[i + 1] = q

\* run_multi_analysis: one turn of the loop over the thresholds.  The roll-up
\* is called without a Fusaka set and what it returns, the pair (node list,
\* Fusaka set), is written whole as node_performance_scores.
MultiReport ==
    /\ pc = "m_report"
    /\ LET threshold == PERFORMANCE_THRESHOLDS[threshold_idx]
           res == CalculateNodePerformanceScores(performance_data, all_rp_validators,
                                                 threshold, {})
           pair == <<res.node_scores, [validators |-> res.fusaka_deaths]>>
       IN /\ threshold_filter' = threshold
          /\ node_scores' = SortedNodeScores(performance_data, all_rp_validators, {})
          /\ returned' = pair
          /\ reports' = Append(reports, Report(period, threshold, epochs_to_analyze, pair, validator_statuses))
    /\ IF threshold_idx < Len(PERFORMANCE_THRESHOLDS)
         THEN /\ threshold_idx' = threshold_idx + 1
              /\ UNCHANGED <<period, pc, exit_status>>
         ELSE /\ threshold_idx' = 0
              /\ IF period = PERIOD_NAMES[Len(PERIOD_NAMES)]
                   THEN pc' = "m_done" /\ exit_status' = 0 /\ UNCHANGED period
                   ELSE /\ pc' = "m_query"
                        /\ period' = NextPeriod(period)
                        /\ UNCHANGED exit_status
    /\ UNCHANGED <<all_rp_validators, performance_data, fusaka_deaths, historyVars, collectVars, uldVars, metricVars, queryVars,
                   val_status, fusaka_file, fusaka_at_start, load_failed, save_failed,
                   run_kind, validator_statuses, resolver_calls, query_calls,
                   failed_periods>>

\* the process exits; the next run starts from the files alone
FinishRun ==
    /\ pc \in {"s_done", "m_done"}
    /\ all_rp_validators' = <<>>
    /\ performance_data' = <<>>
    /\ threshold_filter' = NoThreshold
    /\ fusaka_deaths' = {}
    /\ node_scores' = <<>>
    /\ returned' = <<>>
    /\ store' = <<>>
    /\ active_validators' = <<>>
    /\ latest_epoch' = 0
    /\ epochs_to_analyze' = 0
    /\ retention_info' = [oldest_epoch |-> None, total_days |-> None]
    /\ batch_failed' = {}
    /\ UNCHANGED <<ext_failed, ext_calls>>
    /\ val_status' = <<>>
    /\ validator_statuses' = <<>>
    /\ resolver_calls' = <<>>
    /\ query_calls' = <<>>
    /\ failed_periods' = {}
    /\ exit_status' = None
    /\ fusaka_at_start' = fusaka_file
    /\ load_failed' = FALSE
    /\ save_failed' = FALSE
    /\ run_kind' = "none"
    /\ period' = "none"
    /\ threshold_idx' = 0
    /\ reports' = <<>>
    /\ pc' = "idle"
    /\ UNCHANGED <<historyVars, collectVars, uldVars, metricVars, fusaka_file>>

NextRun ==
    \/ StartAnalysis
    \/ CalculateScores
    \/ WriteReport
    \/ SaveFusakaDeaths
    \/ StartMulti
    \/ MultiQuery
    \/ MultiReport
    \/ FinishRun

SpecRun == InitRun /\ [][NextRun]_vars

\* the descriptor the run computed for a node from the validators' records
RawDescriptor(n) == GetNodeLastAttestation(LastAttestations(n, performance_data))

\* the node records of the report written last, wherever the artifact holds them
LastReportNodes ==
    LET r == reports[Len(reports)]
    IN IF run_kind = "multi" THEN r.node_performance_scores[1]
                             ELSE r.node_performance_scores

\* C7: when a run of run_analysis has ended, every node that was in
\* fusaka_deaths.json at the start of the run and whose computed descriptor
\* is found or found_extended with an epoch after the fork epoch is absent
\* from fusaka_deaths.json, and wherever the run's report lists the node its
\* descriptor is the computed one, not fusaka_death.
C7_RecoveredNodeLeavesSet ==
    (run_kind = "single" /\ pc = "s_done") =>
        \A n \in fusaka_at_start :
            LET raw == RawDescriptor(n)
            IN (raw.status \in {"found", "found_extended"} /\ raw.epoch > FUSAKA_EPOCH) =>
                  /\ n \notin fusaka_file
                  /\ \A i \in DOMAIN LastReportNodes :
                        LastReportNodes[i].node_address = n =>
                            /\ LastReportNodes[i].last_attestation = raw
                            /\ LastReportNodes[i].last_attestation.status # "fusaka_death"

\* C8: in every report a run writes, by run_analysis or by
\* run_multi_analysis, a listed node that is in fusaka_deaths.json and whose
\* computed descriptor is not found/found_extended after the fork epoch
\* carries the descriptor fusaka_death with the fork epoch.
C8_TrackedNodeReportedAsFusakaDeath ==
    (reports # <<>> /\ reports[Len(reports)].epochs_analyzed = epochs_to_analyze) =>
        \A i \in DOMAIN LastReportNodes :
            LET n == LastReportNodes[i].node_address
                raw == RawDescriptor(n)
            IN (/\ n \in fusaka_at_start
                /\ ~(raw.status \in {"found", "found_extended"} /\ raw.epoch > FUSAKA_EPOCH)) =>
                  /\ LastReportNodes[i].last_attestation.status = "fusaka_death"
                  /\ LastReportNodes[i].last_attestation.epoch = FUSAKA_EPOCH

\* C9: fusaka_deaths.json never holds a node it did not hold when the run
\* started, and a node it has lost was lost by a finished run of
\* run_analysis that computed for it a found/found_extended descriptor
\* after the fork epoch.
C9_FusakaSetOnlyShrinks ==
    /\ fusaka_file \subseteq fusaka_at_start
    /\ \A n \in fusaka_at_start \ fusaka_file :
          /\ run_kind = "single"
          /\ pc = "s_done"
          /\ RawDescriptor(n).status \in {"found", "found_extended"}
          /\ RawDescriptor(n).epoch > FUSAKA_EPOCH

PeriodIndex(p) == CHOOSE i \in DOMAIN PERIOD_NAMES : PERIOD_NAMES[i] = p

\* C11: in a run of run_multi_analysis no period is queried twice, the
\* threshold passes add no query (while the reports of the k-th period are
\* written exactly k queries have been made), at the end every period has
\* been queried exactly once, and every report of the period in hand is the
\* roll-up of the one performance_data held in memory.
C11_OneQueryPerPeriod ==
    run_kind = "multi" =>
        /\ \A i, j \in DOMAIN query_calls : query_calls[i] = query_calls[j] => i = j
        /\ pc = "m_report" => Len(query_calls) = PeriodIndex(period)
        /\ pc = "m_done" => query_calls = PERIOD_NAMES
        /\ \A i \in DOMAIN reports :
              /\ \E k \in DOMAIN query_calls : query_calls[k] = reports[i].period
              /\ reports[i].epochs_analyzed = epochs_to_analyze =>
                    reports[i].node_performance_scores[1] =
                        ThresholdFilter(SortedNodeScores(performance_data, all_rp_validators, {}),
                                        reports[i].threshold)

\* a finished multi run: three queries, twelve reports, the last period's
\* reports differing by threshold
C11_Witness ==
    /\ run_kind = "multi"
    /\ pc = "m_done"
    /\ query_calls = PERIOD_NAMES
    /\ Len(reports) = Len(PERIOD_NAMES) * Len(PERFORMANCE_THRESHOLDS)
    /\ reports[Len(reports)].node_performance_scores[1] # <<>>
    /\ reports[Len(reports) - 1].node_performance_scores[1] = <<>>

\* the node records a report of the period in hand should list under a threshold
ExpectedNodeList(threshold) ==
    ThresholdFilter(SortedNodeScores(performance_data, all_rp_validators, {}), threshold)

\* C12: a finished run of run_multi_analysis has written exactly one artifact
\* for each (period, threshold) pair, and in each artifact it writes
\* node_performance_scores has as many entries as the period's node records
\* that pass the threshold, total_nodes being that number.
C12_OneReportPerPair ==
    (run_kind = "multi" /\ reports # <<>>) =>
        /\ pc = "m_done" =>
              \A p \in Range(PERIOD_NAMES), t \in Range(PERFORMANCE_THRESHOLDS) :
                  Cardinality({i \in DOMAIN reports :
                                  reports[i].period = p /\ reports[i].threshold = t}) = 1
        /\ LET r == reports[Len(reports)]
           IN r.epochs_analyzed = epochs_to_analyze =>
                 /\ Len(r.node_performance_scores) = Len(ExpectedNodeList(r.threshold))
                 /\ r.total_nodes = Len(ExpectedNodeList(r.threshold))

\* C13: run_multi_analysis writes no report for a period whose store query
\* failed, and when it has ended every period whose query did not fail has
\* its reports.
C13_FailedPeriodSkipped ==
    run_kind = "multi" =>
        /\ \A i \in DOMAIN reports : reports[i].period \notin failed_periods
        /\ pc = "m_done" =>
              \A p \in Range(PERIOD_NAMES) \ failed_periods :
                  \E i \in DOMAIN reports : reports[i].period = p

-----------------------------------------------------------------------------
(* Specification SpecCollect: runs of collect_daily_stats.py one after the *)
(* other over a stats_history.json that lasts across them.  A file         *)
(* operation may fail and the process may be killed at any step.           *)

BackfillDays == 2
NumTargets == 3

TargetDates == FirstDate .. (FirstDate + NumTargets - 1)
UtcOffsets == {0, 3600}
CollectedMetrics == {"m1"}

\* the store ends with the last epoch of some UTC day
LatestChoices == {DateToEndEpoch(d, 0) : d \in (FirstDate - 1) .. (FirstDate + NumTargets - 1)}

collectRest == <<rollupVars, runVars, uldVars, metricVars, history0, snap_log, store, active_validators,
                 epochs_to_analyze, retention_info, batch_failed, ext_failed, ext_calls>>

InitCollect ==
    /\ UldIdle
    /\ MetricIdle
    /\ RollupIdle
    /\ RunIdle
    /\ QueryIdle
    /\ HistoryIdle
    /\ CollectIdle
    /\ pc = "c_idle"

\* main up to the call of backfill_missing_days, and get_missing_dates in it
StartCollectWith(days_back, latests, offsets, load_faults) ==
    /\ pc = "c_idle"
    /\ \E t \in TargetDates, latest \in latests, offset \in offsets, failed \in load_faults :
          /\ target_date' = t
          /\ latest_epoch' = latest
          /\ utc_offset' = offset
          /\ stats_history' = LoadStatsHistory(stats_file, failed)
          /\ missing_dates' = GetMissingDates(stats_history', t, days_back)
    /\ stats_at_start' = stats_file
    /\ handed_histories' = {}
    /\ history_reads' = 1
    /\ history_writes' = 0
    /\ fusaka_reads' = 0
    /\ date_idx' = 1
    /\ successful' = 0
    /\ skipped_dates' = {}
    /\ save_return' = "none"
    /\ exit_status' = None
    /\ pc' = IF missing_dates' = <<>> THEN "c_target" ELSE "c_backfill"
    /\ UNCHANGED <<rollupVars, uldVars, metricVars, history0, snap_log, store, active_validators,
                   epochs_to_analyze, retention_info, batch_failed, ext_failed, ext_calls,
                   val_status, fusaka_file, fusaka_at_start, load_failed, save_failed,
                   run_kind, period, threshold_idx, reports, validator_statuses,
                   resolver_calls, query_calls, failed_periods, stats_file, stats_tmp>>

\* the runs of SpecCollect look BackfillDays days back
StartCollect == StartCollectWith(BackfillDays, LatestChoices, UtcOffsets, BOOLEAN)

\* backfill_missing_days: one turn of the loop, and after the last the save
BackfillDate ==
    /\ pc = "c_backfill"
    /\ LET d == missing_dates[date_idx]
           last == date_idx = Len(missing_dates)
       IN /\ IF DataAvailable(d, utc_offset, latest_epoch)
               THEN /\ \E m \in CollectedMetrics :
                          stats_history' = AppendSnapshot(stats_history, Snapshot(d, m))
                    /\ successful' = successful + 1
                    /\ fusaka_reads' = fusaka_reads + 1
                    /\ UNCHANGED skipped_dates
               ELSE /\ skipped_dates' = skipped_dates \cup {d}
                    /\ UNCHANGED <<stats_history, successful, fusaka_reads>>
          /\ date_idx' = date_idx + 1
          /\ IF ~last THEN UNCHANGED <<pc, save_return>>
             ELSE IF successful' > 0 THEN pc' = "c_open" /\ save_return' = "c_target"
             ELSE pc' = "c_target" /\ UNCHANGED save_return
          /\ handed_histories' = IF last /\ successful' > 0
                                    THEN handed_histories \cup {stats_history'}
                                    ELSE handed_histories
    /\ UNCHANGED <<collectRest, latest_epoch, exit_status, stats_file, stats_tmp,
                   stats_at_start, utc_offset, target_date, missing_dates, history_reads,
                   history_writes>>

\* main, step 2: the target date is collected again
CollectTarget ==
    /\ pc = "c_target"
    /\ IF DataAvailable(target_date, utc_offset, latest_epoch)
         THEN /\ \E m \in CollectedMetrics :
                    stats_history' = AppendSnapshot(stats_history, Snapshot(target_date, m))
              /\ fusaka_reads' = fusaka_reads + 1
              /\ handed_histories' = handed_histories \cup {stats_history'}
              /\ save_return' = "c_exit"
              /\ pc' = "c_open"
              /\ UNCHANGED <<skipped_dates, exit_status>>
         ELSE /\ skipped_dates' = skipped_dates \cup {target_date}
              /\ exit_status' = 1
              /\ pc' = "c_done"
              /\ UNCHANGED <<stats_history, fusaka_reads, save_return, handed_histories>>
    /\ UNCHANGED <<collectRest, latest_epoch, stats_file, stats_tmp, stats_at_start,
                   utc_offset, target_date, missing_dates, date_idx, successful,
                   history_reads, history_writes>>

\* save_stats_history: open(temp_file, 'w')
SaveOpenTemp ==
    /\ pc = "c_open"
    /\ \E ok \in BOOLEAN :
          IF ok THEN stats_tmp' = TmpPartial /\ pc' = "c_dump"
                ELSE pc' = "c_failed" /\ UNCHANGED stats_tmp
    /\ UNCHANGED <<collectRest, historyVars, latest_epoch, exit_status, stats_file,
                   stats_at_start, save_return, utc_offset, target_date, missing_dates,
                   date_idx, successful, skipped_dates, history_reads, history_writes,
                   fusaka_reads,
                   handed_histories>>

\* save_stats_history: json.dump into the temporary file
SaveDump ==
    /\ pc = "c_dump"
    /\ \E ok \in BOOLEAN :
          /\ stats_file' = DumpEffect(stats_file, stats_history, ok).file
          /\ stats_tmp' = DumpEffect(stats_file, stats_history, ok).tmp
          /\ pc' = IF ok THEN "c_rename" ELSE "c_failed"
    /\ UNCHANGED <<collectRest, historyVars, latest_epoch, exit_status, handed_histories,
                   stats_at_start, save_return, utc_offset, target_date, missing_dates,
                   date_idx, successful, skipped_dates, history_reads, history_writes,
                   fusaka_reads>>

\* save_stats_history: temp_file.rename(STATS_FILE), then back to the caller
SaveRename ==
    /\ pc = "c_rename"
    /\ \E ok \in BOOLEAN :
          IF ok
            THEN /\ stats_file' = stats_tmp
                 /\ stats_tmp' = TmpNone
                 /\ history_writes' = history_writes + 1
                 /\ IF save_return = "c_exit"
                      THEN pc' = "c_done" /\ exit_status' = 0
                      ELSE pc' = save_return /\ UNCHANGED exit_status
            ELSE /\ pc' = "c_failed"
                 /\ UNCHANGED <<stats_file, stats_tmp, history_writes, exit_status>>
    /\ UNCHANGED <<collectRest, historyVars, latest_epoch, stats_at_start, save_return,
                   utc_offset, target_date, missing_dates, date_idx, successful,
                   skipped_dates, history_reads, fusaka_reads,
                   handed_histories>>

\* save_stats_history: the except branch
SaveFailed ==
    /\ pc = "c_failed"
    /\ stats_tmp' = TmpNone
    /\ exit_status' = 1
    /\ pc' = "c_save_exit"
    /\ UNCHANGED <<collectRest, historyVars, latest_epoch, stats_file, stats_at_start,
                   save_return, utc_offset, target_date, missing_dates, date_idx,
                   successful, skipped_dates, history_reads, history_writes, fusaka_reads,
                   handed_histories>>

\* the process is killed
Crash ==
    /\ pc \in {"c_backfill", "c_target", "c_open", "c_dump", "c_rename", "c_failed"}
    /\ exit_status' = 137
    /\ pc' = "c_dead"
    /\ UNCHANGED <<collectRest, historyVars, latest_epoch, stats_file, stats_tmp,
                   stats_at_start, save_return, utc_offset, target_date, missing_dates,
                   date_idx, successful, skipped_dates, history_reads, history_writes,
                   fusaka_reads,
                   handed_histories>>

\* the next run starts from the files alone
FinishCollect ==
    /\ pc \in {"c_done", "c_save_exit", "c_dead"}
    /\ stats_history' = EmptyHistory
    /\ latest_epoch' = 0
    /\ stats_at_start' = stats_file
    /\ handed_histories' = {}
    /\ save_return' = "none"
    /\ utc_offset' = 0
    /\ target_date' = 0
    /\ missing_dates' = <<>>
    /\ date_idx' = 0
    /\ successful' = 0
    /\ skipped_dates' = {}
    /\ history_reads' = 0
    /\ history_writes' = 0
    /\ fusaka_reads' = 0
    /\ exit_status' = None
    /\ pc' = "c_idle"
    /\ UNCHANGED <<rollupVars, uldVars, metricVars, history0, snap_log, store, active_validators,
                   epochs_to_analyze, retention_info, batch_failed, ext_failed, ext_calls,
                   val_status, fusaka_file, fusaka_at_start, load_failed, save_failed,
                   run_kind, period, threshold_idx, reports, validator_statuses,
                   resolver_calls, query_calls, failed_periods, stats_file, stats_tmp>>

NextCollect ==
    \/ StartCollect
    \/ BackfillDate
    \/ CollectTarget
    \/ SaveOpenTemp
    \/ SaveDump
    \/ SaveRename
    \/ SaveFailed
    \/ Crash
    \/ FinishCollect

SpecCollect == InitCollect /\ [][NextCollect]_vars

HistoryDates(history) == {sn.date : sn \in Range(history.snapshots)}

SnapshotsOf(history, day) == {sn \in Range(history.snapshots) : sn.date = IsoFormat(day)}

\* the dates of the backfill for which this run has collected a snapshot
CollectedDates ==
    {missing_dates[i] : i \in 1..(date_idx - 1)} \ skipped_dates

\* C14: when main has ended after dates were skipped because their end_epoch
\* is beyond the latest epoch of the store, no snapshot was stored for a
\* skipped date, the snapshots collected for the other dates are in
\* stats_history.json, and the exit status is zero.
C14_UnavailableDateSkipped ==
    (pc = "c_done" /\ skipped_dates # {}) =>
        /\ \A d \in skipped_dates :
               SnapshotsOf(stats_file.content, d) \subseteq SnapshotsOf(stats_at_start.content, d)
        /\ \A d \in CollectedDates : IsoFormat(d) \in HistoryDates(stats_file.content)
        /\ exit_status = 0

\* C15: at every point of save_stats_history, a failure or a kill at any
\* step included, stats_history.json holds a complete history: the one it
\* held when the run started or one the run handed to save_stats_history.
C15_HistoryFileNeverPartial ==
    /\ stats_file.state = "complete"
    /\ \/ stats_file = stats_at_start
       \/ stats_file.content \in handed_histories

\* the process was killed while the temporary file was half written, over
\* a history file that held snapshots and was about to get another content
C15_Witness ==
    /\ pc = "c_dead"
    /\ stats_tmp.state = "partial"
    /\ stats_at_start.content.snapshots # <<>>
    /\ stats_history # stats_at_start.content
    /\ stats_file = stats_at_start

\* C16: when the write of stats_history.json or of fusaka_deaths.json has
\* failed, the temporary file is gone, the exit status is not zero and the
\* file holds what was persisted before the write.
C16_FailedWriteExitsNonZero ==
    /\ pc = "c_save_exit" =>
          /\ stats_tmp = TmpNone
          /\ exit_status # 0
          /\ \/ stats_file = stats_at_start
             \/ stats_file.content \in handed_histories
    /\ (pc = "s_done" /\ save_failed) =>
          /\ exit_status # 0
          /\ fusaka_file = fusaka_at_start

\* C17: in a run of the collector stats_history.json and fusaka_deaths.json
\* are each read once, and stats_history.json is written at most once.
C17_FilesReadOnceWrittenOnce ==
    pc \in {"c_done", "c_save_exit"} =>
        /\ history_reads = 1
        /\ history_writes <= 1
        /\ fusaka_reads <= 1

-----------------------------------------------------------------------------
(* Specification SpecResolve: get_all_validator_statuses applied to any    *)
(* state of validators_index and validators_summary, any of its batches    *)
(* raising.                                                                *)

\* what the store holds of one public key: a status at the latest epoch, no
\* row of validators_index, or a val_id without a row at the latest epoch
ResolveWorlds == [1..3 -> {"active_ongoing", "exited_unslashed", "not_indexed", "no_row"}]

\* the resolver batches that raise
ResolverFaults == SUBSET DOMAIN Batches(ScanValidators, batch_size)

InitResolve ==
    /\ UldIdle
    /\ MetricIdle
    /\ CollectIdle
    /\ HistoryIdle
    /\ RollupIdle
    /\ QueryIdle
    /\ RunIdle
    /\ pc = "r_idle"

ResolveStatuses ==
    /\ pc = "r_idle"
    /\ \E w \in ResolveWorlds, failed \in ResolverFaults :
          /\ val_status' = w
          /\ validator_statuses' = GetAllValidatorStatuses(w, ScanValidators, failed)
          /\ resolver_calls' = ResolverBatches(failed)
    /\ pc' = "r_done"
    /\ UNCHANGED <<rollupVars, historyVars, queryVars, collectVars, uldVars, metricVars, exit_status,
                   fusaka_file, fusaka_at_start, load_failed, save_failed, run_kind,
                   period, threshold_idx, reports, query_calls, failed_periods>>

FinishResolve ==
    /\ pc = "r_done"
    /\ val_status' = <<>>
    /\ validator_statuses' = <<>>
    /\ resolver_calls' = <<>>
    /\ pc' = "r_idle"
    /\ UNCHANGED <<rollupVars, historyVars, queryVars, collectVars, uldVars, metricVars, exit_status,
                   fusaka_file, fusaka_at_start, load_failed, save_failed, run_kind,
                   period, threshold_idx, reports, query_calls, failed_periods>>

NextResolve ==
    \/ ResolveStatuses
    \/ FinishResolve

SpecResolve == InitResolve /\ [][NextResolve]_vars

\* the status the resolver owes a public key of a batch that answered
OwedStatus(status) ==
    IF status = "not_indexed" THEN "not_in_database"
    ELSE IF status = "no_row" THEN "unknown"
    ELSE status

\* C18: after get_all_validator_statuses, every public key of a batch whose
\* queries succeeded has an entry: not_in_database with val_id null when the
\* key is absent from validators_index, its status of the store or 'unknown'
\* when it is present.
C18_AbsentKeysNotInStore ==
    pc = "r_done" =>
        \A i \in DOMAIN resolver_calls :
            ~resolver_calls[i].failed =>
                \A v \in Range(Batches(ScanValidators, batch_size)[resolver_calls[i].batch]) :
                    /\ v.pubkey \in DOMAIN validator_statuses
                    /\ LET entry == validator_statuses[v.pubkey]
                       IN /\ entry.status = OwedStatus(val_status[v.pubkey])
                          /\ (val_status[v.pubkey] = "not_indexed") = (entry.val_id = None)

-----------------------------------------------------------------------------
(* Specification SpecOutage: the runs of SpecRun over a store in which a   *)
(* public key may be absent from validators_index or without a row at the  *)
(* latest epoch, any resolver batch of any call raising.                   *)

\* an active validator has attested at the latest epoch
OutageCases ==
    {[status |-> "active_ongoing", atts |-> {LatestEpoch}]}
    \cup {[status |-> st, atts |-> {}] : st \in {"exited_unslashed", "not_indexed", "no_row"}}

OutageWorlds == [1..3 -> OutageCases]

InitOutage ==
    /\ InitRun
    /\ fusaka_file = {}

StartAnalysisOutage == StartAnalysisWith(OutageWorlds, ResolverFaults)

StartMultiOutage == StartMultiWith(OutageWorlds, ResolverFaults)

NextOutage ==
    \/ StartAnalysisOutage
    \/ CalculateScores
    \/ WriteReport
    \/ SaveFusakaDeaths
    \/ StartMultiOutage
    \/ MultiQuery
    \/ MultiReport
    \/ FinishRun

SpecOutage == InitOutage /\ [][NextOutage]_vars

\* the validators of a node for which a report's validator_statuses holds an
\* entry with an active status
ActiveByStatus(node_addr, statuses) ==
    {v \in Range(ScanValidators) :
        /\ v.node_address = node_addr
        /\ v.pubkey \in DOMAIN statuses
        /\ statuses[v.pubkey].status \in ACTIVE_STATUSES}

\* C19: in every report, of a single run or of a multi run, the
\* active_minipools of a node counts only validators for which the report's
\* validator_statuses holds an entry with status active_ongoing or
\* active_exiting.
C19_ActiveOnlyWithActiveStatus ==
    reports # <<>> =>
        LET r == reports[Len(reports)]
        IN \A i \in DOMAIN LastReportNodes :
              LastReportNodes[i].active_minipools
                 <= Cardinality(ActiveByStatus(LastReportNodes[i].node_address,
                                               r.validator_statuses))

\* C20: within one run no resolver batch is queried twice, a batch whose
\* query raised least of all, and the validators of a batch whose query
\* raised are not among the resolved active validators.
C20_FailedBatchNotReissued ==
    /\ \A i, j \in DOMAIN resolver_calls :
          i < j => resolver_calls[i].batch # resolver_calls[j].batch
    /\ \A i \in DOMAIN resolver_calls :
          resolver_calls[i].failed =>
              \A v \in Range(Batches(ScanValidators, batch_size)[resolver_calls[i].batch]) :
                  \A a \in Range(active_validators) : a.pubkey # v.pubkey

-----------------------------------------------------------------------------
(* Specification SpecMissing: one run of the collector up to the end of    *)
(* backfill_missing_days, from any stats_history.json append_snapshot can  *)
(* have left, looking back the 119 days of the code.                       *)

\* the history append_snapshot leaves after snapshots of these dates
HistoryOfDates(ds) ==
    LET n == Cardinality(ds)
        sorted == CHOOSE f \in [1..n -> ds] : \A i, j \in 1..n : i < j => f[i] < f[j]
    IN [snapshots |-> [i \in 1..n |-> Snapshot(sorted[i], "m1")], total_snapshots |-> n]

StoredHistories == {HistoryOfDates(ds) : ds \in SUBSET Dates}

InitMissing ==
    /\ UldIdle
    /\ MetricIdle
    /\ RollupIdle
    /\ RunIdle
    /\ QueryIdle
    /\ HistoryIdle
    /\ stats_file \in {TmpComplete(h) : h \in StoredHistories}
    /\ stats_at_start = stats_file
    /\ handed_histories = {}
    /\ stats_tmp = TmpNone
    /\ save_return = "none"
    /\ utc_offset = 0
    /\ target_date = 0
    /\ missing_dates = <<>>
    /\ date_idx = 0
    /\ successful = 0
    /\ skipped_dates = {}
    /\ history_reads = 0
    /\ history_writes = 0
    /\ fusaka_reads = 0
    /\ pc = "c_idle"

\* the store ends with the first of the target dates; the file loads
StartCollectFull ==
    StartCollectWith(DAYS_BACK, {DateToEndEpoch(FirstDate, 0)}, {0}, {FALSE})

NextMissing ==
    \/ StartCollectFull
    \/ BackfillDate

SpecMissing == InitMissing /\ [][NextMissing]_vars

\* get_missing_dates has just returned: stats_history is the loaded history
MissingJustComputed ==
    \/ pc = "c_backfill" /\ date_idx = 1
    \/ pc = "c_target" /\ missing_dates = <<>>

\* the dates from the day after the latest stored one, or from 119 days
\* before the target when nothing is stored, through the target
ExpectedMissing(history, target) ==
    IF history.snapshots = <<>>
      THEN [i \in 1..120 |-> target - 120 + i]
      ELSE LET latest == Max({DateFromIso(sn.date) : sn \in Range(history.snapshots)})
           IN IF latest >= target THEN <<>>
                                  ELSE [i \in 1..(target - latest) |-> latest + i]

\* C21: get_missing_dates returns, ascending and without duplicates, the
\* dates from target-119 through target when the history is empty and the
\* dates from the day after the latest snapshot through target otherwise;
\* each turn of backfill_missing_days handles the next of them in that order.
C21_MissingDatesAscending ==
    /\ [](MissingJustComputed => missing_dates = ExpectedMissing(stats_history, target_date))
    /\ [](\A i, j \in DOMAIN missing_dates : i < j => missing_dates[i] < missing_dates[j])
    /\ [][pc = "c_backfill" =>
            /\ date_idx' = date_idx + 1
            /\ skipped_dates' \subseteq skipped_dates \cup {missing_dates[date_idx]}
            /\ HistoryDates(stats_history') \subseteq
                  HistoryDates(stats_history) \cup {IsoFormat(missing_dates[date_idx])}
            /\ (skipped_dates' # skipped_dates) # (stats_history' # stats_history)]_vars

\* from an empty history the backfill has reached the target date
C21_Witness ==
    /\ pc \in {"c_open", "c_target"}
    /\ Len(missing_dates) = 120
    /\ date_idx = 121

-----------------------------------------------------------------------------
(* Specification SpecBalance: the performance query and the roll-up over a *)
(* store in which a validator has its last row at end_epoch, with a        *)
(* balance around 31.9 ETH, or one epoch earlier.                          *)

BalanceCases ==
    {[rows |-> {LatestEpoch}, atts |-> {LatestEpoch}, balance |-> b] :
        b \in {UNDERCOLLATERALISED_BELOW - 1, UNDERCOLLATERALISED_BELOW, FULL_BALANCE}}
    \cup {[rows |-> {LatestEpoch - 1}, atts |-> {LatestEpoch - 1}, balance |-> FULL_BALANCE]}

InitBalance ==
    /\ UldIdle
    /\ MetricIdle
    /\ CollectIdle
    /\ RunIdle
    /\ HistoryIdle
    /\ all_rp_validators = ScanValidators
    /\ performance_data = <<>>
    /\ threshold_filter = NoThreshold
    /\ fusaka_deaths = {}
    /\ node_scores = <<>>
    /\ returned = <<>>
    /\ latest_epoch = LatestEpoch
    /\ epochs_to_analyze = ANALYSIS_PERIODS["1day"]
    /\ active_validators = [i \in 1..3 |-> ValidatorOf(i)]
    /\ store \in [QueryVals -> BalanceCases]
    /\ retention_info = RunRetention
    /\ batch_failed = {}
    /\ ext_failed = {}
    /\ ext_calls = <<>>
    /\ pc = "b_query"

\* run_analysis: query_attestation_performance, every query answering
QueryBalances ==
    /\ pc = "b_query"
    /\ performance_data' =
          QueryAttestationPerformance(store, active_validators, latest_epoch,
              epochs_to_analyze, retention_info, {}, {})
    /\ pc' = "call"
    /\ UNCHANGED <<all_rp_validators, threshold_filter, fusaka_deaths, node_scores, returned,
                   historyVars, queryVars, runVars, collectVars, uldVars, metricVars, exit_status>>

NextBalance ==
    \/ QueryBalances
    \/ Calculate

SpecBalance == InitBalance /\ [][NextBalance]_vars

\* the validators of the node whose balance at end_epoch the store knows
KnownBalances(node_addr) ==
    {v \in QueryVals : ValidatorOf(v).node_address = node_addr /\ latest_epoch \in store[v].rows}

SumOver(S) == SumInts([i \in 1..Cardinality(S) |->
                        store[CHOOSE v \in S : Cardinality({w \in S : w < v}) = i - 1].balance])

-----------------------------------------------------------------------------
(* calculate_uld_status: the use-latest-delegate status of a node taken     *)
(* from the scanner output.  A flag is "true", "false" or "null"; the       *)
(* count "x/y" is the pair <<x, y>> and a count of None is NoCount.         *)

MaxFlags == 3

UldFlags == {"true", "false", "null"}

NoCount == <<>>

UldUnknown == [status |-> "unknown", count |-> NoCount]

\* an entry of the scanner output; has_flags: the entry carries the key
\* minipool_use_latest_delegate
ScanEntry(node_address, has_flags, flags) ==
    [node_address |-> node_address, has_flags |-> has_flags,
     minipool_use_latest_delegate |-> flags]

\* calculate_uld_status counting every flag, the null ones included
NonNullCountAll(flags) == Len(flags)

\* len([f for f in flags if f is not None])
NonNullCount(flags) == Cardinality({i \in DOMAIN flags : flags[i] # "null"})

CountFlag(flags, value) == Cardinality({i \in DOMAIN flags : flags[i] = value})

CalculateUldStatus(node_address, scan) ==
    LET hits == {i \in DOMAIN scan : scan[i].node_address = node_address}
    IN IF scan = <<>> \/ hits = {} THEN UldUnknown
       ELSE LET node == scan[Min(hits)]
                flags == node.minipool_use_latest_delegate
                total == NonNullCount(flags)
                true_count == CountFlag(flags, "true")
                false_count == CountFlag(flags, "false")
            IN IF ~node.has_flags \/ flags = <<>> \/ total = 0 THEN UldUnknown
               ELSE IF true_count = total THEN [status |-> "yes", count |-> NoCount]
               ELSE IF false_count = total THEN [status |-> "no", count |-> NoCount]
               ELSE [status |-> "partial", count |-> <<true_count, total>>]

ScanEntries ==
    {ScanEntry(n, TRUE, f) : n \in Nodes, f \in SeqsUpTo(UldFlags, MaxFlags)}
        \cup {ScanEntry(n, FALSE, <<>>) : n \in Nodes}

\* entries that follow the first one in the scanner output
LaterEntries ==
    {e \in ScanEntries : e.minipool_use_latest_delegate
                            \in {<<>>, <<"true">>, <<"false", "null">>}}

ScanChoices ==
    {<<>>} \cup {<<e>> : e \in ScanEntries}
           \cup {<<e, l>> : e \in ScanEntries, l \in LaterEntries}

InitUld ==
    /\ MetricIdle
    /\ CollectIdle
    /\ RunIdle
    /\ RollupIdle
    /\ QueryIdle
    /\ HistoryIdle
    /\ scan_data \in ScanChoices
    /\ uld_info = <<>>
    /\ pc = "u_call"

\* the calls of calculate_uld_status made for the nodes of the roster
CalculateUld ==
    /\ pc = "u_call"
    /\ uld_info' = [n \in Nodes |-> CalculateUldStatus(n, scan_data)]
    /\ pc' = "u_done"
    /\ UNCHANGED <<rollupVars, historyVars, queryVars, runVars, collectVars, metricVars,
                   exit_status, scan_data>>

NextUld == CalculateUld

SpecUld == InitUld /\ [][NextUld]_vars

\* the flags of the node in the scanner output, <<>> when it has none
FlagsOf(node_address) ==
    LET hits == {i \in DOMAIN scan_data : scan_data[i].node_address = node_address}
    IN IF hits = {} \/ ~scan_data[Min(hits)].has_flags THEN <<>>
       ELSE scan_data[Min(hits)].minipool_use_latest_delegate

\* C26: with the null flags ignored, the status is "yes" when every flag is
\* true, "no" when every flag is false, otherwise "partial" with the count
\* x/y of true flags among the non-null ones; it is "unknown" when the node
\* has no non-null flag or is not in the scanner output.
C26_UldStatus ==
    pc = "u_done" =>
        \A n \in Nodes :
            LET flags == FlagsOf(n)
                known == {i \in DOMAIN flags : flags[i] # "null"}
                trues == {i \in known : flags[i] = "true"}
            IN uld_info[n] =
                 IF known = {} THEN UldUnknown
                 ELSE IF trues = known THEN [status |-> "yes", count |-> NoCount]
                 ELSE IF trues = {} THEN [status |-> "no", count |-> NoCount]
                 ELSE [status |-> "partial",
                       count |-> <<Cardinality(trues), Cardinality(known)>>]

\* the flags [true, true, false] gave "partial" with the count 2/3, and a
\* null flag next to true ones was left out of the count
C26_Witness ==
    /\ pc = "u_done"
    /\ FlagsOf("n1") = <<"true", "true", "false">>
    /\ uld_info["n1"] = [status |-> "partial", count |-> <<2, 3>>]
    /\ FlagsOf("n2") = <<"false", "null">>
    /\ uld_info["n2"].status = "no"

-----------------------------------------------------------------------------
(* date_to_end_epoch against the UTC day                                   *)

\* the epoch that holds 23:59:59 UTC of the date
EpochOfUtcDayEnd(day) ==
    (day * SECONDS_PER_DAY + 86399 - GENESIS_TIMESTAMP) \div SECONDS_PER_EPOCH

\* C27: on whatever machine the run executes, date_to_end_epoch(d) is the
\* floor of (unix time of 23:59:59 UTC of d - 1606824023) / 384; 2024-03-15
\* maps to epoch 270112 and consecutive dates lie exactly 225 epochs apart.
C27_EndEpochOfUtcDay ==
    pc # "c_idle" =>
        /\ \A d \in {target_date} \cup Range(missing_dates) :
              /\ DateToEndEpoch(d, utc_offset) = EpochOfUtcDayEnd(d)
              /\ DateToEndEpoch(d + 1, utc_offset) - DateToEndEpoch(d, utc_offset)
                    = EPOCHS_PER_DAY
        /\ DateToEndEpoch(DaysFromCivil(2024, 3, 15), utc_offset) = 270112

-----------------------------------------------------------------------------
(* Epochs carried by the last-attestation descriptors                      *)

\* C28: in the records query_attestation_performance returns for the window
\* [start_epoch, end_epoch], a "found" descriptor carries an epoch inside
\* the window, a "found_extended" descriptor carries an epoch strictly
\* before start_epoch (also when start_epoch - 1 lies before the oldest
\* retained epoch), and every other descriptor carries no epoch.
C28_DescriptorEpochs ==
    pc = "done" =>
        \A i \in DOMAIN performance_data :
            LET d == performance_data[i].last_attestation
                start_epoch == latest_epoch - epochs_to_analyze + 1
            IN /\ d.status = "found" =>
                     d.epoch # None /\ start_epoch <= d.epoch /\ d.epoch <= latest_epoch
               /\ d.status = "found_extended" => d.epoch # None /\ d.epoch < start_epoch
               /\ d.status \notin {"found", "found_extended"} => d.epoch = None

\* one run returned a found descriptor at the end of the window, a
\* found_extended descriptor at the epoch before the window and a
\* descriptor without an epoch
C28_Witness ==
    /\ pc = "done"
    /\ Len(performance_data) = 3
    /\ performance_data[1].last_attestation.status = "found"
    /\ performance_data[1].last_attestation.epoch = latest_epoch
    /\ performance_data[2].last_attestation.status = "found_extended"
    /\ performance_data[2].last_attestation.epoch = latest_epoch - epochs_to_analyze
    /\ performance_data[3].last_attestation.status = "older_than"

-----------------------------------------------------------------------------
(* calculate_snapshot_metrics: the minipool and node counts of a daily      *)
(* snapshot.  A score successful / total * 100 is compared with a cut given *)
(* in tenths of a percent by cross-multiplying; the reward sums, the        *)
(* average score and the balance count of the snapshot are left out.        *)

PERFORMANCE_THRESHOLD == 80

SNAPSHOT_ACTIVE_STATUSES == {"active_ongoing", "active_exiting", "active_slashed"}

EXITED_STATUSES == {"exited_unslashed", "exited_slashed", "withdrawal_possible",
                    "withdrawal_done"}

\* node_assignments.get(val_id) and validator_statuses.get(val_id) of an id
\* the dictionary does not hold
NoNode == "none"
NoStatus == "none"

\* a row of query_7day_performance
SevenDayRecord(val_id, n_successful, n_epochs) ==
    [val_id |-> val_id, successful_attestations |-> n_successful, total_epochs |-> n_epochs]

\* successful / total * 100 < tenths / 10, for total > 0
ScoreBelow(n_successful, n_epochs, tenths) == n_successful * 1000 < tenths * n_epochs

\* the band chain with the test for 0% left out
PerfBandNoZero(perf) ==
    LET s == perf.successful_attestations
        t == perf.total_epochs
    IN IF ScoreBelow(s, t, 500) THEN "perf_band_0_50"
       ELSE IF ScoreBelow(s, t, 800) THEN "perf_band_50_80"
       ELSE IF ScoreBelow(s, t, 900) THEN "perf_band_80_90"
       ELSE IF ScoreBelow(s, t, 950) THEN "perf_band_90_95"
       ELSE IF ScoreBelow(s, t, 995) THEN "perf_band_95_99_5"
       ELSE "perf_band_99_5_100"

\* the band the if/elif chain counts the minipool in
PerfBand(perf) ==
    LET s == perf.successful_attestations
        t == perf.total_epochs
    IN IF s = 0 THEN "perf_band_0"
       ELSE IF ScoreBelow(s, t, 500) THEN "perf_band_0_50"
       ELSE IF ScoreBelow(s, t, 800) THEN "perf_band_50_80"
       ELSE IF ScoreBelow(s, t, 900) THEN "perf_band_80_90"
       ELSE IF ScoreBelow(s, t, 950) THEN "perf_band_90_95"
       ELSE IF ScoreBelow(s, t, 995) THEN "perf_band_95_99_5"
       ELSE "perf_band_99_5_100"

\* the rows the minipool loop does not skip
ActiveRows(perf_data, assignments, statuses) ==
    {i \in DOMAIN perf_data :
        /\ assignments[perf_data[i].val_id] # NoNode
        /\ statuses[perf_data[i].val_id] \in SNAPSHOT_ACTIVE_STATUSES}

CalculateSnapshotMetrics(perf_data, assignments, statuses) ==
    LET active == ActiveRows(perf_data, assignments, statuses)
        scored == {i \in active : perf_data[i].total_epochs > 0}
        band(name) == Cardinality({i \in scored : PerfBand(perf_data[i]) = name})
        nodes == {assignments[perf_data[i].val_id] : i \in active}
        of(n) == {i \in active : assignments[perf_data[i].val_id] = n}
        node_successful(n) ==
            SumInts([k \in 1..Len(perf_data) |->
                        IF k \in of(n) THEN perf_data[k].successful_attestations ELSE 0])
        node_epochs(n) ==
            SumInts([k \in 1..Len(perf_data) |->
                        IF k \in of(n) THEN perf_data[k].total_epochs ELSE 0])
        scored_nodes == {n \in nodes : node_epochs(n) > 0}
        active_minipools == Cardinality({v \in DOMAIN statuses : statuses[v] \in SNAPSHOT_ACTIVE_STATUSES})
        exited_minipools == Cardinality({v \in DOMAIN statuses : statuses[v] \in EXITED_STATUSES})
    IN [underperforming_nodes |->
            Cardinality({n \in scored_nodes :
                ScoreBelow(node_successful(n), node_epochs(n), PERFORMANCE_THRESHOLD * 10)}),
        zero_performance_nodes |-> Cardinality({n \in scored_nodes : node_successful(n) = 0}),
        underperforming_minipools |->
            Cardinality({i \in scored :
                ScoreBelow(perf_data[i].successful_attestations, perf_data[i].total_epochs,
                           PERFORMANCE_THRESHOLD * 10)}),
        zero_performance_minipools |->
            Cardinality({i \in scored : perf_data[i].successful_attestations = 0}),
        active_minipools |-> active_minipools,
        total_nodes |-> Cardinality(nodes),
        total_minipools |-> active_minipools + exited_minipools,
        exited_minipools |-> exited_minipools,
        perf_band_99_5_100 |-> band("perf_band_99_5_100"),
        perf_band_95_99_5 |-> band("perf_band_95_99_5"),
        perf_band_90_95 |-> band("perf_band_90_95"),
        perf_band_80_90 |-> band("perf_band_80_90"),
        perf_band_50_80 |-> band("perf_band_50_80"),
        perf_band_0_50 |-> band("perf_band_0_50"),
        perf_band_0 |-> band("perf_band_0")]

\* successful attestations out of 200 counted epochs on both sides of every
\* band limit, and a row without a counted epoch
SevenDayCounts ==
    {<<s, 200>> : s \in {0, 1, 99, 100, 159, 160, 179, 180, 189, 190, 198, 199, 200}}
        \cup {<<0, 0>>}

StatusChoices == {"active_ongoing", "active_slashed", "exited_unslashed", NoStatus}

InitSnapshot ==
    /\ UldIdle
    /\ CollectIdle
    /\ HistoryIdle
    /\ QueryIdle
    /\ all_rp_validators = <<>>
    /\ threshold_filter = NoThreshold
    /\ fusaka_deaths = {}
    /\ node_scores = <<>>
    /\ returned = <<>>
    /\ val_status = <<>>
    /\ fusaka_file = {}
    /\ fusaka_at_start = {}
    /\ load_failed = FALSE
    /\ save_failed = FALSE
    /\ run_kind = "none"
    /\ period = "none"
    /\ threshold_idx = 0
    /\ reports = <<>>
    /\ resolver_calls = <<>>
    /\ query_calls = <<>>
    /\ failed_periods = {}
    /\ exit_status = None
    /\ \E c1 \in SevenDayCounts, c2 \in SevenDayCounts, n \in 2..3 :
          performance_data =
              [v \in 1..n |-> IF v = 1 THEN SevenDayRecord(1, c1[1], c1[2])
                              ELSE IF v = 2 THEN SevenDayRecord(2, c2[1], c2[2])
                              ELSE SevenDayRecord(3, 199, 200)]
    /\ \E s1 \in StatusChoices, s2 \in StatusChoices :
          validator_statuses = <<s1, s2, "active_exiting">>
    /\ node_assignments = [v \in QueryVals |-> ValidatorOf(v).node_address]
    /\ snapshot_metrics = <<>>
    /\ pc = "sm_call"

CalculateMetrics ==
    /\ pc = "sm_call"
    /\ snapshot_metrics' =
          CalculateSnapshotMetrics(performance_data, node_assignments, validator_statuses)
    /\ pc' = "sm_done"
    /\ UNCHANGED <<rollupVars, historyVars, queryVars, runVars, collectVars, uldVars,
                   node_assignments, exit_status>>

NextSnapshot == CalculateMetrics

SpecSnapshot == InitSnapshot /\ [][NextSnapshot]_vars

\* the active validators of the snapshot with at least one counted epoch
CountedValidators ==
    {performance_data[i].val_id : i \in
        {k \in DOMAIN performance_data :
            /\ validator_statuses[performance_data[k].val_id] \in SNAPSHOT_ACTIVE_STATUSES
            /\ performance_data[k].total_epochs > 0}}

BandCounts ==
    <<snapshot_metrics.perf_band_0, snapshot_metrics.perf_band_0_50,
      snapshot_metrics.perf_band_50_80, snapshot_metrics.perf_band_80_90,
      snapshot_metrics.perf_band_90_95, snapshot_metrics.perf_band_95_99_5,
      snapshot_metrics.perf_band_99_5_100>>

\* C29: the seven band counts add up to the number of active validators
\* with at least one counted epoch, perf_band_0 equals
\* zero_performance_minipools, and perf_band_0 + perf_band_0_50 +
\* perf_band_50_80 equals underperforming_minipools.
C29_BandsPartition ==
    pc = "sm_done" =>
        /\ SumInts(BandCounts) = Cardinality(CountedValidators)
        /\ snapshot_metrics.perf_band_0 = snapshot_metrics.zero_performance_minipools
        /\ snapshot_metrics.perf_band_0 + snapshot_metrics.perf_band_0_50
              + snapshot_metrics.perf_band_50_80
                 = snapshot_metrics.underperforming_minipools

\* three counted validators at 0%, at 79.5% and at 99.5%, one band each
C29_Witness ==
    /\ pc = "sm_done"
    /\ Cardinality(CountedValidators) = 3
    /\ snapshot_metrics.perf_band_0 = 1
    /\ snapshot_metrics.perf_band_50_80 = 1
    /\ snapshot_metrics.perf_band_99_5_100 = 1
    /\ snapshot_metrics.underperforming_minipools = 2

-----------------------------------------------------------------------------
(* Specification SpecDefer: scheduled runs of collect_daily_stats.py one    *)
(* after the other while the store goes on receiving epochs.  latest_epoch  *)
(* is MAX(epoch) of the store; every collect_snapshot_for_date reads it     *)
(* anew.  Every query and every file operation succeeds, and runs keep      *)
(* being scheduled.                                                         *)

\* the store holds the epochs up to the end of the day before FirstDate, or
\* of FirstDate
InitDefer ==
    /\ UldIdle
    /\ MetricIdle
    /\ RollupIdle
    /\ RunIdle
    /\ HistoryIdle
    /\ store = <<>>
    /\ active_validators = <<>>
    /\ epochs_to_analyze = 0
    /\ retention_info = [oldest_epoch |-> None, total_days |-> None]
    /\ batch_failed = {}
    /\ ext_failed = {}
    /\ ext_calls = <<>>
    /\ stats_file = [state |-> "complete", content |-> EmptyHistory]
    /\ handed_histories = {}
    /\ stats_tmp = TmpNone
    /\ stats_at_start = [state |-> "complete", content |-> EmptyHistory]
    /\ save_return = "none"
    /\ utc_offset = 0
    /\ target_date = FirstDate
    /\ missing_dates = <<>>
    /\ date_idx = 0
    /\ successful = 0
    /\ skipped_dates = {}
    /\ history_reads = 0
    /\ history_writes = 0
    /\ fusaka_reads = 0
    /\ latest_epoch \in {DateToEndEpoch(FirstDate - 1, 0), DateToEndEpoch(FirstDate, 0)}
    /\ pc = "c_idle"

\* the store receives the epochs of one more day
StoreAdvance ==
    /\ latest_epoch < DateToEndEpoch(FirstDate + NumTargets - 1, 0)
    /\ latest_epoch' = latest_epoch + EPOCHS_PER_DAY
    /\ UNCHANGED <<collectRest, historyVars, collectVars, exit_status, pc>>

\* a scheduled run starts: its target date is not before the last run's
StartScheduled ==
    /\ StartCollectWith(BackfillDays, {latest_epoch}, {0}, {FALSE})
    /\ target_date' >= target_date

\* save_stats_history with every step succeeding
SaveSucceeds ==
    /\ SaveOpenTemp \/ SaveDump \/ SaveRename
    /\ pc' # "c_failed"

\* the process has ended; the scheduler will start the next run
EndScheduled ==
    /\ pc = "c_done"
    /\ stats_history' = EmptyHistory
    /\ stats_at_start' = stats_file
    /\ handed_histories' = {}
    /\ save_return' = "none"
    /\ missing_dates' = <<>>
    /\ date_idx' = 0
    /\ successful' = 0
    /\ skipped_dates' = {}
    /\ history_reads' = 0
    /\ history_writes' = 0
    /\ fusaka_reads' = 0
    /\ exit_status' = None
    /\ pc' = "c_idle"
    /\ UNCHANGED <<collectRest, history0, snap_log, latest_epoch, utc_offset, target_date,
                   stats_file, stats_tmp>>

RunStep ==
    \/ StartScheduled
    \/ BackfillDate
    \/ CollectTarget
    \/ SaveSucceeds
    \/ EndScheduled

NextDefer ==
    \/ RunStep
    \/ StoreAdvance

\* a started run goes on to its end, the scheduler starts the next one, and
\* the store keeps receiving epochs
SpecDefer ==
    /\ InitDefer
    /\ [][NextDefer]_vars
    /\ WF_vars(RunStep)
    /\ WF_vars(StoreAdvance)

\* the days of stats_history.json
StoredDays == {DateFromIso(iso) : iso \in HistoryDates(stats_file.content)}

\* no date between the earliest and the latest stored snapshot is missing
NoMissingDate ==
    StoredDays # {} => \A d \in Min(StoredDays)..Max(StoredDays) : d \in StoredDays

\* C30: a date skipped because its end_epoch was beyond the latest epoch of
\* the store gets its snapshot in a later run, and from some point on
\* stats_history.json has no missing date between its earliest and its
\* latest snapshot.
C30_SkippedDateDeferred ==
    /\ \A d \in (FirstDate - BackfillDays)..(FirstDate + NumTargets - 1) :
          (d \in skipped_dates) ~> (d \in StoredDays)
    /\ <>[]NoMissingDate

====
